---- MODULE Spec2Model ----
(***************************************************************************)
(* Model of the real-time ingestion core of kyiv-traffic-bigdata           *)
(* (src/kpt/poller): the crash-recoverable position queue, the flush and   *)
(* shutdown paths of the orchestrator, the deduplication filter and the    *)
(* Socket.IO streaming client.                                             *)
(*                                                                         *)
(* Six specifications share the module:                                    *)
(*   Spec        the queue, its two files and the orchestrator session     *)
(*   SpecDedup   the deduplication filter under a monotonic clock          *)
(*   SpecClient  the run loop and the receive loop of the streaming client *)
(*   SpecPoll    the route polling loop of the orchestrator                *)
(*   SpecRecover recover() on queue files of any content                   *)
(*   SpecCodec   the message parser and from_dict applied to one input     *)
(*                                                                         *)
(* The environment: the writer awaited by the orchestrator either returns  *)
(* or raises; the process may die at any point and is started again; the   *)
(* server sends any frame, closes, or stays silent; every send may raise.  *)
(* The queue files are read and written without OSError.  Under Spec every *)
(* line of a queue file is a complete line written by append(); under      *)
(* SpecRecover a process starts on files that also hold empty lines and    *)
(* lines that are no JSON.                                                 *)
(***************************************************************************)
EXTENDS Integers, Sequences, FiniteSets, TLC

VARIABLES
    \* ---- ConcurrentFileQueue (websocket_client.py) ----
    queue,        \* self._queue: the in-memory deque(maxlen = max_size)
    bufFile,      \* the file at self._buffer_path
    procFile,     \* the file at self._processing_path
    lock,         \* self._lock: "free" or "append" (held by an append)
    apos,         \* the position an append in progress has pushed, as <<p>>
    \* ---- KPTPoller session (poller.py) ----
    opc,          \* position of _run_session / _shutdown_tasks
    fpc,          \* position of the _flush_positions_loop task
    positions,    \* local of _flush_positions_loop: the batch flush() returned
    remaining,    \* local of _shutdown_tasks: the batch of the final flush
    recovered,    \* local of _recover_buffered_positions
    written,      \* what the writer accepted: <<[pos, via, epoch]>>
    epoch,        \* number of the current session (process lifetimes included)
    nextId,       \* vehicle id the next inbound position carries
    tasks,        \* the loop tasks and the streaming client that are running
    \* ---- history of the run, read by the properties only ----
    appended,     \* positions whose append() has returned
    overflowed,   \* the deque has dropped an entry
    failedBatch,  \* batch of the last flush cycle whose write raised
    sinceFlush,   \* positions appended since the last flush / recover
    scen,         \* progress of the scenario "append*, one flush, restart"
    sinceEmpty,   \* the positions of that scenario
    shutLog,      \* the steps _shutdown_tasks has taken, last shutdown
    \* ---- DeduplicationFilter (websocket_client.py) ----
    seen,         \* self._seen: key -> expiry
    lastCleanup,  \* self._last_cleanup
    clock,        \* time.monotonic(), in seconds
    inserted,     \* history: key -> time of the last insertion into _seen
    dlast,        \* history: the last is_duplicate call, as <<record>>
    \* ---- AsyncWebSocketClient (websocket_client.py) ----
    cpc,          \* position of the _run_loop task
    running,      \* self._running
    wsOpen,       \* self._ws is open (not closed)
    connected,    \* self._stats.connected
    delay,        \* local `delay` of _run_loop
    frame,        \* the text frame being handled, as <<text>>
    sent,         \* frames the client sent on the current connection
    events,       \* receive events of the current connection
    failures,     \* history: failed connection attempts since the last success
    raised,       \* history: exceptions caught by _run_loop since then
    parsedFrames, \* history: the frames passed to MessageParser.parse
    hsReply,      \* the reply to the handshake of the current attempt
    wsUrl,        \* history: the URL ws_connect was just called with
    \* ---- KPTPoller._poll_routes_loop (poller.py) ----
    ppc,          \* position of the polling task
    pollerRunning,       \* KPTPoller._running
    consecutiveFailures, \* local consecutive_failures
    pollCount,    \* self._stats.poll_count
    statFailures, \* self._stats.consecutive_failures
    routeRecords, \* poll_number of the records the writer accepted
    polls,        \* history: polls issued
    pending403,   \* history: a 403 whose refresh has not completed
    refreshLog,   \* history: the refreshes completed, "403" or "max"
    inFlight,     \* history: refresh_session calls begun and not yet ended
    \* ---- the wire codec and from_dict applied to one input ----
    codecIn,      \* the input: a message in structured form, or a position
    parseOut,     \* <<outcome of MessageParser.parse(message)>>, once called
    csvOut,       \* <<result of parse_csv_position(message)>>, once called
    restored,     \* <<from_dict(to_dict(position))>>, once called
    \* ---- KPTPoller.run and the tasks of its session (poller.py) ----
    rpc,          \* position of run(): in gather, in _shutdown_tasks, ...
    lpc,          \* positions of the flush loop and the stats loop tasks
    rexc,         \* an exception is on its way out of _run_session
    rlog,         \* history: the steps of the last _shutdown_tasks
    rsessions     \* history: the sessions run() has started

qvars == <<queue, bufFile, procFile, lock, apos, opc, fpc, positions, remaining,
           recovered, written, epoch, nextId, tasks, appended, overflowed,
           failedBatch, sinceFlush, scen, sinceEmpty, shutLog>>

dvars == <<seen, lastCleanup, clock, inserted, dlast>>

cvars == <<cpc, running, wsOpen, connected, delay, frame, sent, events,
           failures, raised, parsedFrames, hsReply, wsUrl>>

pvars == <<ppc, pollerRunning, consecutiveFailures, pollCount, statFailures,
           routeRecords, polls, pending403, refreshLog, inFlight>>

wvars == <<codecIn, parseOut, csvOut, restored>>

rvars == <<rpc, lpc, rexc, rlog, rsessions>>

vars == <<qvars, dvars, cvars, pvars, wvars, rvars>>

----------------------------------------------------------------------------
(* Bounds of the model *)

\* QueueConfig.max_size (the configuration value the deque is built with)
MaxSize == 2
\* number of positions the stream delivers in one run of the model
MaxPos == 3
\* number of sessions (restarts after a crash or a session end included)
MaxSessions == 3
\* number of sessions run() builds in one run of the orchestrator model
MaxRunSessions == 2
\* last second of the monotonic clock
MaxClock == 100
\* failures (failed attempts and caught exceptions) between two successes
MaxFailures == 7
\* receive events (frames, timeouts) on one connection
MaxEvents == 3
\* polls the polling loop issues
MaxPolls == 5
\* lines of a queue file found at the start of a process
MaxLines == 3

----------------------------------------------------------------------------
(* Program constants *)

\* DeduplicationFilter(ttl = 60.0)
Ttl == 60
\* self._cleanup_interval = 30.0
CleanupInterval == 30
\* WebSocketConfig.reconnect_delay
ReconnectDelay == 5
\* the cap of min(delay * 2, 300)
MaxDelay == 300
\* APIConfig.max_consecutive_failures
MaxConsecutiveFailures == 3

----------------------------------------------------------------------------
(* VehiclePosition and its dictionary form (models.py) *)

\* Timestamps an inbound record may carry; 0 is a legal integer for
\* parse_csv_position (int(parts[6])).
Timestamps == {0, 100}

\* Wall-clock seconds datetime.now().timestamp() may return during recover.
WallClock == {200}

\* VehiclePosition(vehicle_id, route_id, lat, lon, direction, flag, timestamp);
\* lat and lon in 1/100 degree.
VehiclePosition(vid, rid, la, lo, dir, fl, ts) ==
    [vehicle_id |-> vid, route_id |-> rid, lat |-> la, lon |-> lo,
     direction |-> dir, flag |-> fl, timestamp |-> ts]

\* The positions the stream delivers: distinct vehicle ids, in-bounds
\* coordinates, zero direction and flag as in the documented sample record.
InboundPosition(id, ts) == VehiclePosition(id, 1, 5045, 3052, 0, 0, ts)

\* to_dict: the seven fields under their own names.
ToDict(p) ==
    [vehicle_id |-> p.vehicle_id, route_id |-> p.route_id, lat |-> p.lat,
     lon |-> p.lon, direction |-> p.direction, flag |-> p.flag,
     timestamp |-> p.timestamp]

\* dict.get(key, default); a missing key without default gives None, which
\* the callers only test for truth, so 0 stands for it.
Get(d, key, default) == IF key \in DOMAIN d THEN d[key] ELSE default

\* Python's `a or b` on integers: a when a is truthy (non-zero), else b.
PyOr(a, b) == IF a # 0 THEN a ELSE b

\* from_dict(data), with `now` the value of int(datetime.now().timestamp()).
FromDict(data, now) ==
    VehiclePosition(
        PyOr(Get(data, "vehicle_id", 0), Get(data, "id", 0)),
        PyOr(Get(data, "route_id", 0), Get(data, "routeId", 0)),
        data["lat"],
        data["lon"],
        Get(data, "direction", 0),
        Get(data, "flag", 0),
        PyOr(Get(data, "timestamp", 0), now))

----------------------------------------------------------------------------
(* Files and the deque *)

Absent == [exists |-> FALSE, lines |-> <<>>]

\* open(path, "a"); f.write(line): creates the file when it is missing.
AppendLine(f, line) == [exists |-> TRUE, lines |-> Append(f.lines, line)]

\* Variant: a full deque refuses the new entry instead of dropping the oldest.
DequeAppend_dropNewest(q, p) ==
    IF Len(q) >= MaxSize THEN q ELSE Append(q, p)

\* deque(maxlen = MaxSize).append(p): drops the oldest entry when full.
DequeAppend(q, p) ==
    IF Len(q) >= MaxSize THEN Append(Tail(q), p) ELSE Append(q, p)

\* A line that is empty after strip(): `if not line: continue`.
Blank == [blank |-> TRUE]

\* A line json.loads rejects (JSONDecodeError): a torn or merged line.
Garbage == [garbage |-> TRUE]

IsBlank(line) == "blank" \in DOMAIN line

\* json.loads gives a dictionary with "lat" and "lon": from_dict succeeds.
IsRecord(line) == {"lat", "lon"} \subseteq DOMAIN line

\* The loop of recover() over the lines of a file: positions are collected
\* up to the first line that raises.
RECURSIVE ReadLines(_, _)
ReadLines(lines, now) ==
    IF lines = <<>> THEN <<>>
    ELSE IF IsBlank(Head(lines)) THEN ReadLines(Tail(lines), now)
    ELSE IF ~IsRecord(Head(lines)) THEN <<>>
    ELSE <<FromDict(Head(lines), now)>> \o ReadLines(Tail(lines), now)

\* The positions recover() takes from one file.
ReadFile(f, now) == IF f.exists THEN ReadLines(f.lines, now) ELSE <<>>

\* The file after recover(): os.remove(path) is reached only when no line
\* raised; the handler of (JSONDecodeError, KeyError, OSError) leaves the
\* file in place.
FileAfterRecover(f) ==
    IF f.exists /\ \A i \in DOMAIN f.lines :
                      IsBlank(f.lines[i]) \/ IsRecord(f.lines[i])
    THEN Absent ELSE f

\* Variant: flush() returns the batch without clearing the deque.
QueueAfterFlush_keep(q) == q

\* flush(): the in-memory contents after the batch was taken (queue.clear()).
QueueAfterFlush(q) == <<>>

\* Variant: flush() copies the buffer file and leaves it where it was.
BufAfterRename_stay(buf) == buf

\* flush(): after buffer_path.rename(processing_path) no buffer file exists.
BufAfterRename(buf) == Absent

\* flush(): buffer_path.rename(processing_path) replaces the processing file.
ProcAfterRename(buf, proc) == IF buf.exists THEN buf ELSE proc

\* The entries the writer records for a batch it accepted.
Handed(batch, via) ==
    [i \in 1..Len(batch) |-> [pos |-> batch[i], via |-> via, epoch |-> epoch]]

----------------------------------------------------------------------------
(* Initial state: a first start on an empty output directory *)

\* A fresh process: nothing in memory, no session started.
InitMemory ==
    /\ queue = <<>>
    /\ lock = "free"
    /\ apos = <<>>
    /\ opc = "start"
    /\ fpc = "none"
    /\ positions = <<>>
    /\ remaining = <<>>
    /\ recovered = <<>>
    /\ written = <<>>
    /\ epoch = 1
    /\ nextId = 1
    /\ tasks = {}
    /\ shutLog = <<>>
    /\ appended = {}
    /\ overflowed = FALSE
    /\ failedBatch = <<>>
    /\ sinceFlush = <<>>
    /\ scen = "none"
    /\ sinceEmpty = <<>>

InitQueue ==
    /\ InitMemory
    /\ bufFile = Absent
    /\ procFile = Absent

\* The end of a session or of the process: run() builds the next session
\* with a fresh ConcurrentFileQueue over the same directory; all in-memory
\* state is gone, the two files stay.
NewSession ==
    /\ queue' = <<>>
    /\ lock' = "free"
    /\ apos' = <<>>
    /\ fpc' = "none"
    /\ positions' = <<>>
    /\ remaining' = <<>>
    /\ recovered' = <<>>
    /\ failedBatch' = <<>>
    /\ tasks' = {}
    /\ IF epoch < MaxSessions
       THEN opc' = "start" /\ epoch' = epoch + 1
       ELSE opc' = "ended" /\ epoch' = epoch

----------------------------------------------------------------------------
(* ConcurrentFileQueue.recover and KPTPoller._recover_buffered_positions *)

\* Variant: the session goes on to _create_tasks without forwarding.
AfterRecover_skipForward == "forwarded"

\* `recovered = await queue.recover()`: next is the forwarding.
AfterRecover == "recovered"

\* The tasks _create_tasks starts: the polling loop, the streaming client
\* (websocket.enabled), the flush loop and the stats loop.
SessionTasks == {"poll", "ws", "flush", "stats"}

\* Variant: the buffer file is read first.
RecoverOrder_bufferFirst(fromProc, fromBuf) == fromBuf \o fromProc

\* `for path in (self._processing_path, self._buffer_path)`: the positions
\* of the processing file are collected first.
RecoverOrder(fromProc, fromBuf) == fromProc \o fromBuf

\* recover(): read the processing file, then the buffer file; a file is
\* removed after all its lines were read.
Recover ==
    /\ opc = "start"
    /\ \E now \in WallClock :
          recovered' = RecoverOrder(ReadFile(procFile, now),
                                    ReadFile(bufFile, now))
    /\ procFile' = FileAfterRecover(procFile)
    /\ bufFile' = FileAfterRecover(bufFile)
    /\ opc' = AfterRecover
    /\ sinceFlush' = <<>>
    /\ scen' = IF scen = "flushed" THEN "recovered" ELSE "none"
    /\ sinceEmpty' = IF scen = "flushed" THEN sinceEmpty ELSE <<>>
    /\ UNCHANGED <<queue, lock, apos, fpc, positions, remaining, written, epoch,
                   nextId, tasks, appended, overflowed, failedBatch, shutLog>>

\* `if recovered: await writer.write_positions(...)` returns.
RecoverForward ==
    /\ opc = "recovered"
    /\ \/ /\ recovered = <<>>
          /\ UNCHANGED written
       \/ /\ recovered # <<>>
          /\ written' = written \o Handed(recovered, "recover")
    /\ opc' = "forwarded"
    /\ recovered' = <<>>
    /\ scen' = IF scen = "recovered" THEN "none" ELSE scen
    /\ sinceEmpty' = IF scen = "recovered" THEN <<>> ELSE sinceEmpty
    /\ UNCHANGED <<queue, bufFile, procFile, lock, apos, fpc, positions,
                   remaining, epoch, nextId, tasks, appended, overflowed,
                   failedBatch, sinceFlush, shutLog>>

\* _create_tasks: the tasks are created and the streaming client started;
\* the session waits in gather().
CreateTasks ==
    /\ opc = "forwarded"
    /\ opc' = "running"
    /\ fpc' = "sleep"
    /\ tasks' = SessionTasks
    /\ shutLog' = <<>>
    /\ UNCHANGED <<queue, bufFile, procFile, lock, apos, positions, remaining,
                   recovered, written, epoch, nextId, appended, overflowed,
                   failedBatch, sinceFlush, scen, sinceEmpty>>

\* The write of the recovered positions raises: the exception leaves
\* _run_session (the call is outside its try) and run() starts a new session.
RecoverForwardFail ==
    /\ opc = "recovered"
    /\ recovered # <<>>
    /\ NewSession
    /\ scen' = IF scen = "recovered" THEN "none" ELSE scen
    /\ sinceEmpty' = IF scen = "recovered" THEN <<>> ELSE sinceEmpty
    /\ UNCHANGED <<bufFile, procFile, written, nextId, appended, overflowed,
                   sinceFlush, shutLog>>

----------------------------------------------------------------------------
(* ConcurrentFileQueue.append, in the streaming task *)

\* The streaming client runs from _create_tasks until ws_client.stop().
StreamingActive == "ws" \in tasks

\* A task other than the flush loop runs only while the flush loop is
\* suspended: between the return of the write and confirm_flush there is no
\* suspension point.
FlushLoopSuspended == fpc # "written"

\* The streaming task is suspended (it is not inside the locked region of
\* append, which holds no suspension point).
StreamingSuspended == apos = <<>>

\* append(): `async with self._lock`
AppendAcquires == lock = "free"

\* Variant: flush() does not take the lock.
FlushAcquires_unlocked == TRUE

\* flush(): `async with self._lock`
FlushAcquires == lock = "free"

\* append(), first half: take the lock and push to the deque.
AppendPush ==
    /\ StreamingActive
    /\ FlushLoopSuspended
    /\ AppendAcquires
    /\ nextId <= MaxPos
    /\ \E ts \in Timestamps :
          LET p == InboundPosition(nextId, ts) IN
              /\ queue' = DequeAppend(queue, p)
              /\ apos' = <<p>>
    /\ overflowed' = (overflowed \/ Len(queue) >= MaxSize)
    /\ lock' = "append"
    /\ nextId' = nextId + 1
    /\ UNCHANGED <<bufFile, procFile, opc, fpc, positions, remaining, recovered,
                   written, epoch, tasks, appended, failedBatch, sinceFlush,
                   scen, sinceEmpty, shutLog>>

\* append(), second half: write the line to the buffer file, release the lock.
AppendWrite ==
    /\ lock = "append"
    /\ bufFile' = AppendLine(bufFile, ToDict(apos[1]))
    /\ lock' = "free"
    /\ apos' = <<>>
    /\ appended' = appended \cup {apos[1]}
    /\ sinceFlush' = Append(sinceFlush, apos[1])
    /\ scen' = IF scen \in {"none", "appending"} THEN "appending" ELSE "other"
    /\ sinceEmpty' = CASE scen = "none" -> <<apos[1]>>
                       [] scen = "appending" -> Append(sinceEmpty, apos[1])
                       [] OTHER -> <<>>
    /\ UNCHANGED <<queue, procFile, opc, fpc, positions, remaining, recovered,
                   written, epoch, nextId, tasks, overflowed, failedBatch,
                   shutLog>>

----------------------------------------------------------------------------
(* ConcurrentFileQueue.flush / confirm_flush, in _flush_positions_loop *)

\* The state change of flush() on a non-empty deque.
FlushEffect ==
    /\ queue' = QueueAfterFlush(queue)
    /\ procFile' = ProcAfterRename(bufFile, procFile)
    /\ bufFile' = BufAfterRename(bufFile)
    /\ sinceFlush' = <<>>
    /\ scen' = IF scen = "appending" THEN "flushed" ELSE "other"
    /\ sinceEmpty' = IF scen = "appending" THEN sinceEmpty ELSE <<>>

\* The loop wakes from its sleep and calls flush(); an empty result makes
\* it `continue`, a batch is passed to the writer.
FlushLoopFlush ==
    /\ opc = "running"
    /\ fpc = "sleep"
    /\ FlushAcquires
    /\ \/ /\ queue = <<>>
          /\ UNCHANGED <<queue, bufFile, procFile, fpc, positions, sinceFlush,
                         scen, sinceEmpty>>
       \/ /\ queue # <<>>
          /\ positions' = queue
          /\ FlushEffect
          /\ fpc' = "write"
    /\ UNCHANGED <<lock, apos, opc, remaining, recovered, written, epoch,
                   nextId, tasks, appended, overflowed, failedBatch, shutLog>>

\* writer.write_positions returns.
FlushWriteOk ==
    /\ opc = "running"
    /\ fpc = "write"
    /\ written' = written \o Handed(positions, "flush")
    /\ fpc' = "written"
    /\ failedBatch' = <<>>
    /\ UNCHANGED <<queue, bufFile, procFile, lock, apos, opc, positions,
                   remaining, recovered, epoch, nextId, tasks, appended,
                   overflowed, sinceFlush, scen, sinceEmpty, shutLog>>

\* Variant: the handler of the failed write falls through to confirm_flush.
AfterWriteFail_confirm == "written"

\* The pc of the flush loop after the write raised: `except Exception` logs
\* and the loop goes back to its sleep.
AfterWriteFail == "sleep"

\* writer.write_positions raises.
FlushWriteFail ==
    /\ opc = "running"
    /\ fpc = "write"
    /\ fpc' = AfterWriteFail
    /\ failedBatch' = positions
    /\ positions' = IF AfterWriteFail = "sleep" THEN <<>> ELSE positions
    /\ UNCHANGED <<queue, bufFile, procFile, lock, apos, opc, remaining,
                   recovered, written, epoch, nextId, tasks, appended,
                   overflowed, sinceFlush, scen, sinceEmpty, shutLog>>

\* confirm_flush(): remove the processing file; back to the sleep.
FlushConfirm ==
    /\ opc = "running"
    /\ fpc = "written"
    /\ procFile' = Absent
    /\ fpc' = "sleep"
    /\ positions' = <<>>
    /\ scen' = "other"
    /\ sinceEmpty' = <<>>
    /\ UNCHANGED <<queue, bufFile, lock, apos, opc, remaining, recovered,
                   written, epoch, nextId, tasks, appended, overflowed,
                   failedBatch, sinceFlush, shutLog>>

----------------------------------------------------------------------------
(* KPTPoller._shutdown_tasks *)

\* Variant: the final flush is taken without stopping the streaming client.
AfterCancel_flushFirst == "flushing"

\* After the tasks were cancelled and awaited: `await ws_client.stop()`.
AfterCancel == "stopping"

\* The session leaves gather(): every task is cancelled and awaited.  A task
\* is cancelled at a suspension point: the flush loop in its sleep or inside
\* the awaited write, which may or may not have reached the writer.
ShutdownCancel ==
    /\ opc = "running"
    /\ StreamingSuspended
    /\ fpc \in {"sleep", "write"}
    /\ \/ UNCHANGED written
       \/ /\ fpc = "write"
          /\ written' = written \o Handed(positions, "flush")
    /\ fpc' = "done"
    /\ positions' = <<>>
    /\ tasks' = tasks \ {"poll", "flush", "stats"}
    /\ opc' = AfterCancel
    /\ shutLog' = <<"cancel">>
    /\ UNCHANGED <<queue, bufFile, procFile, lock, apos, remaining, recovered,
                   epoch, nextId, appended, overflowed, failedBatch, sinceFlush,
                   scen, sinceEmpty>>

\* ws_client.stop() returns: the run-loop task of the client has ended.
ShutdownStopClient ==
    /\ opc = "stopping"
    /\ StreamingSuspended
    /\ tasks' = tasks \ {"ws"}
    /\ opc' = "flushing"
    /\ shutLog' = Append(shutLog, "stop")
    /\ UNCHANGED <<queue, bufFile, procFile, lock, apos, fpc, positions,
                   remaining, recovered, written, epoch, nextId, appended,
                   overflowed, failedBatch, sinceFlush, scen, sinceEmpty>>

\* The final flush(); an empty result goes straight to writer.close().
ShutdownFlush ==
    /\ opc = "flushing"
    /\ StreamingSuspended
    /\ FlushAcquires
    /\ \/ /\ queue = <<>>
          /\ opc' = "closing"
          /\ UNCHANGED <<queue, bufFile, procFile, remaining, sinceFlush, scen,
                         sinceEmpty>>
       \/ /\ queue # <<>>
          /\ remaining' = queue
          /\ FlushEffect
          /\ opc' = "shutwrite"
    /\ shutLog' = Append(shutLog, "flush")
    /\ UNCHANGED <<lock, apos, fpc, positions, recovered, written, epoch, nextId,
                   tasks, appended, overflowed, failedBatch>>

\* The write of the final batch returns.
ShutdownWriteOk ==
    /\ opc = "shutwrite"
    /\ written' = written \o Handed(remaining, "shutdown")
    /\ opc' = "shutwritten"
    /\ shutLog' = Append(shutLog, "write")
    /\ UNCHANGED <<queue, bufFile, procFile, lock, apos, fpc, positions,
                   remaining, recovered, epoch, nextId, tasks, appended,
                   overflowed, failedBatch, sinceFlush, scen, sinceEmpty>>

\* The write of the final batch raises: the exception leaves _shutdown_tasks
\* before confirm_flush and writer.close().
ShutdownWriteFail ==
    /\ opc = "shutwrite"
    /\ NewSession
    /\ UNCHANGED <<bufFile, procFile, written, nextId, appended, overflowed,
                   sinceFlush, scen, sinceEmpty, shutLog>>

\* confirm_flush() of the final batch.
ShutdownConfirm ==
    /\ opc = "shutwritten"
    /\ procFile' = Absent
    /\ opc' = "closing"
    /\ scen' = "other"
    /\ sinceEmpty' = <<>>
    /\ shutLog' = Append(shutLog, "confirm")
    /\ UNCHANGED <<queue, bufFile, lock, apos, fpc, positions, remaining,
                   recovered, written, epoch, nextId, tasks, appended,
                   overflowed, failedBatch, sinceFlush>>

\* writer.close(); the session is over.
ShutdownClose ==
    /\ opc = "closing"
    /\ NewSession
    /\ shutLog' = Append(shutLog, "close")
    /\ UNCHANGED <<bufFile, procFile, written, nextId, appended, overflowed,
                   sinceFlush, scen, sinceEmpty>>

\* The process dies at any point of a session; it is started again later.
Crash ==
    /\ opc \notin {"start", "ended"}
    /\ NewSession
    /\ UNCHANGED <<bufFile, procFile, written, nextId, appended, overflowed,
                   sinceFlush, scen, sinceEmpty, shutLog>>

----------------------------------------------------------------------------
(* DeduplicationFilter *)

\* The positions offered to the filter; their keys are (7, 100), (8, 100).
DedupInputs == {InboundPosition(7, 100), InboundPosition(8, 100)}

\* Seconds the clock advances between two calls.
ClockSteps == {10, 25, 35}

InitDedup ==
    /\ seen = <<>>
    /\ lastCleanup = 0
    /\ clock = 0
    /\ inserted = <<>>
    /\ dlast = <<>>

\* key = (position.vehicle_id, position.timestamp)
DedupKey(p) == <<p.vehicle_id, p.timestamp>>

\* _cleanup(now): drop the keys with expiry <= clock.
Cleanup(tbl, t) ==
    LET keep == {k \in DOMAIN tbl : ~(tbl[k] <= t)} IN [k \in keep |-> tbl[k]]

\* Variant: the sweep is due as soon as the interval has elapsed.
CleanupDue_atInterval(lc, t) == t - lc >= CleanupInterval

\* `if now - self._last_cleanup > self._cleanup_interval`
CleanupDue(lc, t) == t - lc > CleanupInterval

\* dict[key] = value
Put(tbl, key, value) ==
    [k \in DOMAIN tbl \cup {key} |-> IF k = key THEN value ELSE tbl[k]]

\* is_duplicate(position) at time t, on the table tbl last swept at lc: the
\* returned value and the filter's state after the call.
DedupCall(tbl, lc, t, p) ==
    LET key == DedupKey(p)
        swept == IF CleanupDue(lc, t) THEN Cleanup(tbl, t) ELSE tbl
        dup == key \in DOMAIN swept
    IN  [dup |-> dup,
         seen |-> IF dup THEN swept ELSE Put(swept, key, t + Ttl),
         lastCleanup |-> IF CleanupDue(lc, t) THEN t ELSE lc]

\* A call of is_duplicate by the filter's user.
IsDuplicate ==
    \E p \in DedupInputs :
        LET key == DedupKey(p)
            r == DedupCall(seen, lastCleanup, clock, p)
            dup == r.dup
        IN  /\ lastCleanup' = r.lastCleanup
            /\ seen' = r.seen
            /\ inserted' = IF dup THEN inserted ELSE Put(inserted, key, clock)
            /\ dlast' = <<[key |-> key, at |-> clock, result |-> dup,
                           known |-> key \in DOMAIN inserted,
                           expiry |-> IF key \in DOMAIN inserted
                                      THEN inserted[key] + Ttl ELSE 0]>>
            /\ UNCHANGED clock

\* time.monotonic() advances between two calls.
ClockAdvance ==
    \E d \in ClockSteps :
        /\ clock + d <= MaxClock
        /\ clock' = clock + d
        /\ UNCHANGED <<seen, lastCleanup, inserted, dlast>>

----------------------------------------------------------------------------
(* The wire codec (parsers.py); text is a sequence of characters *)

Digit == {"0", "1", "2", "3", "4", "5", "6", "7", "8", "9"}

DigitVal(c) ==
    CASE c = "0" -> 0 [] c = "1" -> 1 [] c = "2" -> 2 [] c = "3" -> 3
      [] c = "4" -> 4 [] c = "5" -> 5 [] c = "6" -> 6 [] c = "7" -> 7
      [] c = "8" -> 8 [] c = "9" -> 9

\* The characters of \w that the frames of the model use in event names.
WordChar == Digit \cup {"v", "x", "_"}

Quote == "\""

\* Index of the first occurrence of c in s, 0 when there is none.
IndexOf(s, c) ==
    IF \A i \in DOMAIN s : s[i] # c THEN 0
    ELSE CHOOSE i \in DOMAIN s : s[i] = c /\ \A j \in 1..(i - 1) : s[j] # c

\* str.split(sep) for a one-character separator.
RECURSIVE Split(_, _)
Split(s, sep) ==
    LET k == IndexOf(s, sep) IN
        IF k = 0 THEN <<s>>
        ELSE <<SubSeq(s, 1, k - 1)>> \o Split(SubSeq(s, k + 1, Len(s)), sep)

\* int(text) succeeds; the frames of the model carry unsigned decimals only.
IsInt(t) == t # <<>> /\ \A i \in DOMAIN t : t[i] \in Digit

\* int(text)
RECURSIVE IntOf(_)
IntOf(t) ==
    IF t = <<>> THEN 0
    ELSE 10 * IntOf(SubSeq(t, 1, Len(t) - 1)) + DigitVal(t[Len(t)])

\* float(text) succeeds; coordinates are written with two decimals, or none.
IsFloat(t) ==
    LET parts == Split(t, ".") IN
        /\ Len(parts) \in {1, 2}
        /\ IsInt(parts[1])
        /\ Len(parts) = 2 => (IsInt(parts[2]) /\ Len(parts[2]) = 2)

\* float(text), in 1/100 degree.
FloatOf(t) ==
    LET parts == Split(t, ".") IN
        IF Len(parts) = 2 THEN 100 * IntOf(parts[1]) + IntOf(parts[2])
        ELSE 100 * IntOf(parts[1])

\* KyivCoordinateBounds, in 1/100 degree.
LatMin == 5020
LatMax == 5070
LonMin == 3020
LonMax == 3100

\* Variant: the edges of the bounds are excluded.
Contains_open(la, lo) ==
    LatMin < la /\ la < LatMax /\ LonMin < lo /\ lo < LonMax

\* KyivCoordinateBounds.contains
Contains(la, lo) ==
    LatMin <= la /\ la <= LatMax /\ LonMin <= lo /\ lo <= LonMax

\* CSV_POSITION_FIELD_COUNT
CsvPositionFieldCount == 7

\* Variant: more fields than CSV_POSITION_FIELD_COUNT are accepted.
FieldCountOk_atLeast(parts) == Len(parts) >= CsvPositionFieldCount

\* len(parts) != CSV_POSITION_FIELD_COUNT gives None.
FieldCountOk(parts) == Len(parts) = CsvPositionFieldCount

\* parse_csv_position(data, bounds): <<position>>, or <<>> for None.
ParseCsvPosition(data) ==
    LET parts == Split(data, ",") IN
        IF ~FieldCountOk(parts) THEN <<>>
        ELSE IF ~IsFloat(parts[3]) \/ ~IsFloat(parts[4]) THEN <<>>
        ELSE IF ~Contains(FloatOf(parts[3]), FloatOf(parts[4])) THEN <<>>
        ELSE IF \E i \in {1, 2, 5, 6, 7} : ~IsInt(parts[i]) THEN <<>>
        ELSE <<VehiclePosition(IntOf(parts[1]), IntOf(parts[2]),
                               FloatOf(parts[3]), FloatOf(parts[4]),
                               IntOf(parts[5]), IntOf(parts[6]),
                               IntOf(parts[7]))>>

\* A JSON value: t is "str", "int", "float", "inf", "null", "list" or "dict";
\* s the text of a string, n an integer or a float in 1/100, items the
\* elements of a list or the values of a dict, keys the keys of a dict.
JsonValue(t, s, n, items, keys) ==
    [t |-> t, s |-> s, n |-> n, items |-> items, keys |-> keys]

JsonNull == JsonValue("null", <<>>, 0, <<>>, <<>>)

JsonInt(n) == JsonValue("int", <<>>, n, <<>>, <<>>)

\* The outcome of decoding at index i: the value and the index after it.
Decoded(v, next) == [ok |-> TRUE, v |-> v, next |-> next]

DecodeError == [ok |-> FALSE, v |-> JsonNull, next |-> 0]

\* s[i .. i + Len(w) - 1] = w
StartsAt(s, i, w) ==
    i + Len(w) - 1 <= Len(s) /\ SubSeq(s, i, i + Len(w) - 1) = w

\* Index of the first character at or after i that is no digit.
DigitsEnd(s, i) ==
    IF \A j \in i..Len(s) : s[j] \in Digit THEN Len(s) + 1
    ELSE CHOOSE j \in i..Len(s) :
             s[j] \notin Digit /\ \A k \in i..(j - 1) : s[k] \in Digit

\* The decoder of json.loads for text without white space, escapes, signs
\* and exponents: a string, an unsigned number with at most two decimals,
\* null, Infinity (which Python's decoder accepts), a list or a dict.
RECURSIVE JsonDecode(_, _)
RECURSIVE JsonDecodeItems(_, _)
RECURSIVE JsonDecodeMembers(_, _)
JsonDecode(s, i) ==
    IF i > Len(s) THEN DecodeError
    ELSE IF s[i] = Quote
    THEN LET k == IndexOf(SubSeq(s, i + 1, Len(s)), Quote) IN
             IF k = 0 THEN DecodeError
             ELSE Decoded(JsonValue("str", SubSeq(s, i + 1, i + k - 1), 0,
                                    <<>>, <<>>), i + k + 1)
    ELSE IF s[i] \in Digit
    THEN LET e == DigitsEnd(s, i)
             whole == IntOf(SubSeq(s, i, e - 1))
             f == DigitsEnd(s, e + 1)
             frac == SubSeq(s, e + 1, f - 1)
         IN  IF e > Len(s) \/ s[e] # "."
             THEN Decoded(JsonInt(whole), e)
             ELSE IF Len(frac) = 1
             THEN Decoded(JsonValue("float", <<>>,
                                    100 * whole + 10 * IntOf(frac),
                                    <<>>, <<>>), f)
             ELSE IF Len(frac) = 2
             THEN Decoded(JsonValue("float", <<>>, 100 * whole + IntOf(frac),
                                    <<>>, <<>>), f)
             ELSE DecodeError
    ELSE IF StartsAt(s, i, <<"n", "u", "l", "l">>)
    THEN Decoded(JsonNull, i + 4)
    ELSE IF StartsAt(s, i, <<"I", "n", "f", "i", "n", "i", "t", "y">>)
    THEN Decoded(JsonValue("inf", <<>>, 0, <<>>, <<>>), i + 8)
    ELSE IF s[i] = "["
    THEN IF StartsAt(s, i, <<"[", "]">>)
         THEN Decoded(JsonValue("list", <<>>, 0, <<>>, <<>>), i + 2)
         ELSE JsonDecodeItems(s, i + 1)
    ELSE IF s[i] = "{"
    THEN IF StartsAt(s, i, <<"{", "}">>)
         THEN Decoded(JsonValue("dict", <<>>, 0, <<>>, <<>>), i + 2)
         ELSE JsonDecodeMembers(s, i + 1)
    ELSE DecodeError

\* The elements of a list from index i on, up to and including ']'.
JsonDecodeItems(s, i) ==
    LET first == JsonDecode(s, i)
        rest == JsonDecodeItems(s, first.next + 1)
    IN  IF ~first.ok \/ first.next > Len(s) THEN DecodeError
        ELSE IF s[first.next] = "]"
        THEN Decoded(JsonValue("list", <<>>, 0, <<first.v>>, <<>>),
                     first.next + 1)
        ELSE IF s[first.next] # "," \/ ~rest.ok THEN DecodeError
        ELSE Decoded(JsonValue("list", <<>>, 0, <<first.v>> \o rest.v.items,
                               <<>>), rest.next)

\* The members "key":value of a dict from index i on, up to and including
\* '}'.
JsonDecodeMembers(s, i) ==
    LET key == JsonDecode(s, i)
        val == JsonDecode(s, key.next + 1)
        rest == JsonDecodeMembers(s, val.next + 1)
    IN  IF ~key.ok \/ key.v.t # "str" \/ key.next > Len(s) THEN DecodeError
        ELSE IF s[key.next] # ":" \/ ~val.ok \/ val.next > Len(s)
        THEN DecodeError
        ELSE IF s[val.next] = "}"
        THEN Decoded(JsonValue("dict", <<>>, 0, <<val.v>>, <<key.v.s>>),
                     val.next + 1)
        ELSE IF s[val.next] # "," \/ ~rest.ok THEN DecodeError
        ELSE Decoded(JsonValue("dict", <<>>, 0, <<val.v>> \o rest.v.items,
                               <<key.v.s>> \o rest.v.keys), rest.next)

\* json.loads(text): ok is false for a JSONDecodeError.
JsonLoads(s) ==
    LET r == JsonDecode(s, 1) IN
        IF r.ok /\ r.next = Len(s) + 1 THEN [ok |-> TRUE, v |-> r.v]
        ELSE [ok |-> FALSE, v |-> JsonNull]

\* `key in d` for a dict d and a key given as text.
HasKey(d, key) == \E i \in DOMAIN d.keys : d.keys[i] = key

\* d.get(key, default); of two members with the same key the last one counts.
DictGet(d, key, default) ==
    IF ~HasKey(d, key) THEN default
    ELSE d.items[CHOOSE i \in DOMAIN d.keys :
                     d.keys[i] = key /\ \A j \in DOMAIN d.keys :
                                            d.keys[j] = key => j <= i]

\* The truth value Python gives a decoded value.
Truthy(v) ==
    CASE v.t = "str" -> v.s # <<>>
      [] v.t \in {"int", "float"} -> v.n # 0
      [] v.t = "inf" -> TRUE
      [] v.t = "null" -> FALSE
      [] v.t \in {"list", "dict"} -> v.items # <<>>

\* int(v): the integer, or the name of the exception in err.
ToInt(v) ==
    CASE v.t = "int" -> [err |-> "", n |-> v.n]
      [] v.t = "float" -> [err |-> "", n |-> v.n \div 100]
      [] v.t = "str" -> IF IsInt(v.s) THEN [err |-> "", n |-> IntOf(v.s)]
                        ELSE [err |-> "ValueError", n |-> 0]
      [] v.t = "inf" -> [err |-> "OverflowError", n |-> 0]
      [] v.t \in {"null", "list", "dict"} -> [err |-> "TypeError", n |-> 0]

\* float(v) in 1/100: the number, or the name of the exception in err;
\* inf is set for the float infinity.
ToFloat(v) ==
    CASE v.t = "int" -> [err |-> "", n |-> 100 * v.n, inf |-> FALSE]
      [] v.t = "float" -> [err |-> "", n |-> v.n, inf |-> FALSE]
      [] v.t = "str" ->
            IF IsFloat(v.s) THEN [err |-> "", n |-> FloatOf(v.s), inf |-> FALSE]
            ELSE [err |-> "ValueError", n |-> 0, inf |-> FALSE]
      [] v.t = "inf" -> [err |-> "", n |-> 0, inf |-> TRUE]
      [] v.t \in {"null", "list", "dict"} ->
            [err |-> "TypeError", n |-> 0, inf |-> FALSE]

\* parse_socket_io_event(message): the match of ^42\["(\w+)",(.*)]\s*$ and
\* json.loads of the payload; ok is false for None.
ParseSocketIoEvent(m) ==
    LET none == [ok |-> FALSE, name |-> <<>>, payload |-> JsonNull]
        body == SubSeq(m, 5, Len(m))
        k == IndexOf(body, Quote)
        name == SubSeq(body, 1, k - 1)
        payload == JsonLoads(SubSeq(body, k + 2, Len(body) - 1))
    IN  IF Len(m) < 4 \/ SubSeq(m, 1, 4) # <<"4", "2", "[", Quote>> THEN none
        ELSE IF k < 2 \/ \E i \in DOMAIN name : name[i] \notin WordChar THEN none
        ELSE IF Len(body) < k + 2 \/ body[k + 1] # "," \/ body[Len(body)] # "]"
             THEN none
        ELSE IF ~payload.ok THEN none
        ELSE [ok |-> TRUE, name |-> name, payload |-> payload.v]

\* POSITION_EVENT_NAMES; the frames of the model use the name "v".
PositionEventNames == {<<"v">>}

\* The keys from_dict reads.
KeyVehicleId == <<"v", "e", "h", "i", "c", "l", "e", "_", "i", "d">>
KeyId == <<"i", "d">>
KeyRouteId == <<"r", "o", "u", "t", "e", "_", "i", "d">>
KeyRouteIdCamel == <<"r", "o", "u", "t", "e", "I", "d">>
KeyLat == <<"l", "a", "t">>
KeyLon == <<"l", "o", "n">>
KeyDirection == <<"d", "i", "r", "e", "c", "t", "i", "o", "n">>
KeyFlag == <<"f", "l", "a", "g">>
KeyTimestamp == <<"t", "i", "m", "e", "s", "t", "a", "m", "p">>

\* Python's `a or b` on decoded values.
PyOrValue(a, b) == IF Truthy(a) THEN a ELSE b

\* float(data[key]); a missing key is a KeyError.
FloatItem(d, key) ==
    IF HasKey(d, key) THEN ToFloat(DictGet(d, key, JsonNull))
    ELSE [err |-> "KeyError", n |-> 0, inf |-> FALSE]

\* from_dict on an object of an event payload: the arguments are evaluated
\* in the order of the fields and the first exception leaves the call.
FromDictItem(d, now) ==
    LET vid == ToInt(PyOrValue(DictGet(d, KeyVehicleId, JsonNull),
                               DictGet(d, KeyId, JsonInt(0))))
        rid == ToInt(PyOrValue(DictGet(d, KeyRouteId, JsonNull),
                               DictGet(d, KeyRouteIdCamel, JsonInt(0))))
        la == FloatItem(d, KeyLat)
        lo == FloatItem(d, KeyLon)
        dir == ToInt(DictGet(d, KeyDirection, JsonInt(0)))
        fl == ToInt(DictGet(d, KeyFlag, JsonInt(0)))
        ts == ToInt(PyOrValue(DictGet(d, KeyTimestamp, JsonNull),
                              JsonInt(now)))
        errs == <<vid.err, rid.err, la.err, lo.err, dir.err, fl.err, ts.err>>
    IN  IF \E i \in 1..7 : errs[i] # ""
        THEN [err |-> errs[CHOOSE i \in 1..7 :
                               errs[i] # "" /\ \A j \in 1..(i - 1) : errs[j] = ""],
              inf |-> FALSE,
              pos |-> <<>>]
        ELSE [err |-> "",
              inf |-> la.inf \/ lo.inf,
              pos |-> <<VehiclePosition(vid.n, rid.n, la.n, lo.n, dir.n, fl.n,
                                        ts.n)>>]

\* The exceptions _extract_single_position catches.
CaughtByExtract == {"KeyError", "ValueError", "TypeError"}

\* _extract_single_position(item, bounds): raised when an exception leaves
\* it, else pos is <<position>>, or <<>> for None.
ExtractSinglePosition(item, now) ==
    LET r == FromDictItem(item, now) IN
        IF item.t = "str"
        THEN [raised |-> FALSE, pos |-> ParseCsvPosition(item.s)]
        ELSE IF item.t # "dict" \/ ~HasKey(item, KeyLat)
        THEN [raised |-> FALSE, pos |-> <<>>]
        ELSE IF r.err \in CaughtByExtract
        THEN [raised |-> FALSE, pos |-> <<>>]
        ELSE IF r.err # "" THEN [raised |-> TRUE, pos |-> <<>>]
        ELSE IF r.inf \/ ~Contains(r.pos[1].lat, r.pos[1].lon)
        THEN [raised |-> FALSE, pos |-> <<>>]
        ELSE [raised |-> FALSE, pos |-> r.pos]

\* The loop of extract_positions_from_payload over the items of a list.
RECURSIVE ExtractItems(_, _)
ExtractItems(items, now) ==
    IF items = <<>> THEN [raised |-> FALSE, positions |-> <<>>]
    ELSE LET first == ExtractSinglePosition(Head(items), now)
             rest == ExtractItems(Tail(items), now)
         IN  IF first.raised \/ rest.raised
             THEN [raised |-> TRUE, positions |-> <<>>]
             ELSE [raised |-> FALSE, positions |-> first.pos \o rest.positions]

\* extract_positions_from_payload(payload, bounds)
ExtractPositions(payload, now) ==
    IF payload.t = "list" THEN ExtractItems(payload.items, now)
    ELSE IF payload.t = "str"
    THEN [raised |-> FALSE, positions |-> ParseCsvPosition(payload.s)]
    ELSE [raised |-> FALSE, positions |-> <<>>]

\* MessageParser.parse(message): the positions returned, or raised when an
\* exception leaves the call; `now` is the wall clock from_dict reads.
Parse(m, now) ==
    LET csv == ParseCsvPosition(m)
        event == ParseSocketIoEvent(m)
    IN  IF csv # <<>> THEN [raised |-> FALSE, positions |-> csv]
        ELSE IF event.ok /\ event.name \in PositionEventNames
             THEN ExtractPositions(event.payload, now)
        ELSE [raised |-> FALSE, positions |-> <<>>]

\* _extract_json_object(text): the prefix up to the brace that closes the
\* first one, or the whole text; count is the brace count before index i.
RECURSIVE ExtractFrom(_, _, _)
ExtractFrom(text, i, count) ==
    IF i > Len(text) THEN text
    ELSE IF text[i] = "{" THEN ExtractFrom(text, i + 1, count + 1)
    ELSE IF text[i] = "}"
    THEN IF count = 1 THEN SubSeq(text, 1, i)
         ELSE ExtractFrom(text, i + 1, count - 1)
    ELSE ExtractFrom(text, i + 1, count)

ExtractJsonObject(text) == ExtractFrom(text, 1, 0)

\* The marker of the handshake body and the keys read from its object.
HandshakeMarker == <<":", "0", "{">>
KeySid == <<"s", "i", "d">>
KeyPingInterval ==
    <<"p", "i", "n", "g", "I", "n", "t", "e", "r", "v", "a", "l">>

\* text.index(":0{"), 0 when the marker is not in the text.
MarkerIndex(text) ==
    IF \A i \in DOMAIN text : ~StartsAt(text, i, HandshakeMarker) THEN 0
    ELSE CHOOSE i \in DOMAIN text :
             /\ StartsAt(text, i, HandshakeMarker)
             /\ \A j \in 1..(i - 1) : ~StartsAt(text, j, HandshakeMarker)

\* The object json.loads is given by parse_handshake_response.
HandshakeObject(text) ==
    JsonLoads(ExtractJsonObject(SubSeq(text, MarkerIndex(text) + 2, Len(text))))

\* parse_handshake_response(text): (sid, pingInterval), null for None.
ParseHandshakeResponse(text) ==
    LET data == HandshakeObject(text) IN
        IF MarkerIndex(text) = 0 \/ ~data.ok
        THEN [sid |-> JsonNull, pingInterval |-> JsonNull]
        ELSE [sid |-> DictGet(data.v, KeySid, JsonNull),
              pingInterval |-> DictGet(data.v, KeyPingInterval, JsonNull)]

\* What `await get_text(url)` comes back with: an exception, None or a body.
Raises == [kind |-> "raise", text |-> <<>>]
NoResponse == [kind |-> "none", text |-> <<>>]
Body(text) == [kind |-> "text", text |-> text]

\* Variant: a missing session id is not tested.
SessionIdUsable_any(sid) == TRUE

\* `if not session_id: return None`, then session_id[:20], which raises a
\* TypeError for a number.
SessionIdUsable(sid) == Truthy(sid) /\ sid.t \in {"str", "list"}

\* (ping_interval or 25000) // 1000 raises no TypeError.
PingIntervalUsable(ping) == ~Truthy(ping) \/ ping.t \in {"int", "float", "inf"}

\* _perform_handshake() returns a ConnectionContext for this reply; every
\* exception inside it is caught and gives None.
PerformHandshake(reply) ==
    LET parsed == ParseHandshakeResponse(reply.text) IN
        /\ reply.kind = "text"
        /\ SessionIdUsable(parsed.sid)
        /\ PingIntervalUsable(parsed.pingInterval)

\* The text of a JSON string and of a member "key":value.
JsonText(chars) == <<Quote>> \o chars \o <<Quote>>
MemberText(key, value) == JsonText(key) \o <<":">> \o value

\* The replies of the handshake endpoint: an exception, no response, the
\* body 97:0{"sid":"ab","pingInterval":25000}, the same without the
\* pingInterval, the body 97:0{"sid":"cd"}, a body without the marker, a body cut off inside the
\* object, and objects with no sid, a null sid and an empty sid.
HandshakeReplies ==
    LET head == <<"9", "7", ":", "0">>
        sid == MemberText(KeySid, JsonText(<<"a", "b">>))
        ping == MemberText(KeyPingInterval, <<"2", "5", "0", "0", "0">>)
    IN  {Raises, NoResponse,
         Body(head \o <<"{">> \o sid \o <<",">> \o ping \o <<"}">>),
         Body(head \o <<"{">> \o sid \o <<"}">>),
         Body(head \o <<"{">> \o MemberText(KeySid, JsonText(<<"c", "d">>))
                  \o <<"}">>),
         Body(<<"o", "k">>),
         Body(head \o <<"{">> \o sid \o <<",">>),
         Body(head \o <<"{">> \o ping \o <<"}">>),
         Body(head \o <<"{">> \o MemberText(KeySid, <<"n", "u", "l", "l">>)
                  \o <<"}">>),
         Body(head \o <<"{">> \o MemberText(KeySid, JsonText(<<>>)) \o <<"}">>)}

\* No handshake reply is at hand.
Unset == [kind |-> "unset", text |-> <<>>]

\* The replies _perform_handshake() turns into a ConnectionContext.
ContextReplies == {reply \in HandshakeReplies : PerformHandshake(reply)}

\* The end of the socket URL.
SidParameter == <<"&", "s", "i", "d", "=">>

\* Variant: the socket URL is built without the session id.
WsUrl_withoutSid(sessionId) == SidParameter

\* ws_url = f"wss://{ws_host}/socket.io/?EIO=3&transport=websocket&sid={session_id}",
\* from its last parameter on.
WsUrl(sessionId) == SidParameter \o sessionId

\* The ConnectionContext _perform_handshake() returns for each such reply.
Contexts ==
    [reply \in ContextReplies |->
        LET sessionId == ParseHandshakeResponse(reply.text).sid.s IN
            [session_id |-> sessionId, ws_url |-> WsUrl(sessionId)]]

----------------------------------------------------------------------------
(* AsyncWebSocketClient: _run_loop, _receive_loop, _handle_message *)

\* Text frames are sequences of characters.
ProbeResponse == <<"3", "p", "r", "o", "b", "e">>

\* The text of a position record of vehicle `id` on route 1 at
\* (50.45, 30.52) with timestamp 100: "id,1,50.45,30.52,0,0,100".
CsvRecord(id) ==
    <<id, ",", "1", ",", "5", "0", ".", "4", "5", ",", "3", "0", ".", "5", "2",
      ",", "0", ",", "0", ",", "1", "0", "0">>

\* The event envelope 42["name","text"].
Envelope(name, text) ==
    <<"4", "2", "[", Quote>> \o name \o <<Quote, ",", Quote>> \o text
        \o <<Quote, "]">>

\* The event 42["v",[{"lat":50.45,"lon":30.52,"direction":Infinity}]].
InfiniteDirectionEvent ==
    <<"4", "2", "[">> \o JsonText(<<"v">>) \o <<",", "[", "{">>
        \o MemberText(KeyLat, <<"5", "0", ".", "4", "5">>) \o <<",">>
        \o MemberText(KeyLon, <<"3", "0", ".", "5", "2">>) \o <<",">>
        \o MemberText(KeyDirection, <<"I", "n", "f", "i", "n", "i", "t", "y">>)
        \o <<"}", "]", "]">>

\* Frames the server sends: the probe response, a pong, a ping, a truncated
\* envelope ("42["), the empty frame, the records of the vehicles 1 and 2,
\* the record of vehicle 4 inside an allow-listed envelope, and an event
\* whose object holds an infinite number.
ServerFrames ==
    {ProbeResponse, <<"3">>, <<"2">>, <<"4", "2", "[">>, <<>>,
     CsvRecord("1"), CsvRecord("2"), Envelope(<<"v">>, CsvRecord("4")),
     InfiniteDirectionEvent}

\* The order of the tests in _handle_message / _handle_protocol_message.
Classify(f) ==
    IF f = <<>> THEN "empty"
    ELSE IF f = ProbeResponse THEN "probe"
    ELSE IF f[1] = "3" THEN "pong"
    ELSE IF f[1] = "2" THEN "ping"
    ELSE "data"

\* Variant: a handled protocol frame falls through to the parser.
AfterProtocol_fallThrough == "parse"

\* _handle_protocol_message returned True: `return` in _handle_message.
AfterProtocol == "pingcheck"

\* The frame a ping of the server is answered with.
PongReply == <<"3">>

InitClient ==
    /\ cpc = "handshake"
    /\ running = TRUE
    /\ wsOpen = FALSE
    /\ connected = FALSE
    /\ delay = ReconnectDelay
    /\ frame = <<>>
    /\ sent = <<>>
    /\ events = 0
    /\ failures = 0
    /\ raised = 0
    /\ parsedFrames = {}
    /\ hsReply = Unset
    /\ wsUrl = <<>>

\* Variant: the delay doubles without the cap.
NextDelay_uncapped(d) == d * 2

\* delay = min(delay * 2, 300)
NextDelay(d) == IF d * 2 <= MaxDelay THEN d * 2 ELSE MaxDelay

\* The history counters stay within the bound of the model.
MayFail == failures + raised < MaxFailures

\* _perform_handshake() returns None: no response, no session id, or an
\* exception inside it; the loop sleeps `delay`.
HandshakeFail ==
    /\ cpc = "handshake"
    /\ MayFail
    /\ hsReply' \in HandshakeReplies \ ContextReplies
    /\ cpc' = "backoff"
    /\ failures' = failures + 1
    /\ UNCHANGED <<running, wsOpen, connected, delay, frame, sent, events, raised,
                   parsedFrames, wsUrl>>

\* _perform_handshake() returns a ConnectionContext.
HandshakeOk ==
    /\ cpc = "handshake"
    /\ hsReply' \in ContextReplies
    /\ cpc' = "connect"
    /\ UNCHANGED <<running, wsOpen, connected, delay, frame, sent, events,
                   failures, raised, parsedFrames, wsUrl>>

\* _connect_websocket() returns False: ws_connect raised.
ConnectFail ==
    /\ cpc = "connect"
    /\ MayFail
    /\ \E context \in {Contexts[hsReply]} : wsUrl' = context.ws_url
    /\ hsReply' = Unset
    /\ cpc' = "backoff"
    /\ failures' = failures + 1
    /\ UNCHANGED <<running, wsOpen, connected, delay, frame, sent, events, raised,
                   parsedFrames>>

\* _connect_websocket() returns True: the delay is reset and the upgrade
\* probe is about to be sent.
ConnectOk ==
    /\ cpc = "connect"
    /\ wsOpen' = TRUE
    /\ delay' = ReconnectDelay
    /\ sent' = <<>>
    /\ events' = 0
    /\ failures' = 0
    /\ raised' = 0
    /\ cpc' = "probe"
    /\ \E context \in {Contexts[hsReply]} : wsUrl' = context.ws_url
    /\ hsReply' = Unset
    /\ UNCHANGED <<running, connected, frame, parsedFrames>>

\* An exception reaches `except Exception` of _run_loop: it is counted and
\* the loop sleeps `delay`.
CaughtByRunLoop ==
    /\ MayFail
    /\ cpc' = "backoff"
    /\ raised' = raised + 1
    /\ frame' = <<>>
    /\ UNCHANGED <<running, wsOpen, connected, delay, sent, events, failures,
                   parsedFrames>>

\* `await self._ws.send_str(f)` returns: the frame is on the wire.
SendOk(f) ==
    /\ wsOpen
    /\ sent' = Append(sent, f)

\* Variant: the loop ends after the sleep that follows a failure.
AfterSleep_exit(run) == "stopped"

\* After a sleep the loop condition `while self._running` is read: the next
\* cycle starts with the handshake, or the loop ends.
AfterSleep(run) == IF run THEN "handshake" ELSE "stopped"

\* The sleep after a failure ends; the delay doubles and the loop condition
\* `while self._running` is read.
BackoffDone ==
    /\ cpc = "backoff"
    /\ hsReply' = Unset
    /\ wsUrl' = <<>>
    /\ delay' = NextDelay(delay)
    /\ cpc' = AfterSleep(running)
    /\ UNCHANGED <<running, wsOpen, connected, frame, sent, events, failures,
                   raised, parsedFrames>>

\* send_str("2probe") after the socket opened.
SendProbe ==
    /\ cpc = "probe"
    /\ wsUrl' = <<>>
    /\ UNCHANGED hsReply
    /\ \/ /\ SendOk(<<"2", "p", "r", "o", "b", "e">>)
          /\ cpc' = IF running /\ wsOpen THEN "receive" ELSE
                    IF running THEN "lost" ELSE "stopped"
          /\ connected' = IF running /\ wsOpen THEN connected ELSE FALSE
          /\ UNCHANGED <<running, wsOpen, delay, frame, events, failures, raised, parsedFrames>>
       \/ CaughtByRunLoop

\* The end of _receive_loop and the lines after it in _run_loop:
\* connected = False; `if not self._running: break`; sleep(reconnect_delay).
LeaveReceiveLoop ==
    /\ connected' = FALSE
    /\ cpc' = IF running THEN "lost" ELSE "stopped"

\* The loop condition `while self._running and not self._ws.closed`.
NextIteration ==
    IF running /\ wsOpen
    THEN cpc' = "receive" /\ UNCHANGED connected
    ELSE LeaveReceiveLoop

\* receive() times out: a ping when connected, then `continue`.
ReceiveTimeout ==
    /\ cpc = "receive"
    /\ events < MaxEvents
    /\ events' = events + 1
    /\ \/ /\ connected
          /\ SendOk(<<"2">>)
          /\ NextIteration
       \/ /\ connected
          /\ LeaveReceiveLoop
          /\ UNCHANGED sent
       \/ /\ ~connected
          /\ NextIteration
          /\ UNCHANGED sent
    /\ UNCHANGED <<running, wsOpen, delay, frame, failures, raised, parsedFrames>>

\* receive() returns CLOSED, CLOSING or ERROR: break.
ReceiveClosed ==
    /\ cpc = "receive"
    /\ wsOpen' = FALSE
    /\ LeaveReceiveLoop
    /\ UNCHANGED <<running, delay, frame, sent, events, failures, raised, parsedFrames>>

\* Variant: the namespace connect is sent before the upgrade completion.
ProbeReplies_swapped == <<<<"4", "0">>, <<"5">>>>

\* The frames _handle_protocol_message answers '3probe' with, in order.
ProbeReplies == <<<<"5">>, <<"4", "0">>>>

\* receive() returns a TEXT frame; _handle_message classifies it.
ReceiveText ==
    /\ cpc = "receive"
    /\ wsOpen
    /\ events < MaxEvents
    /\ events' = events + 1
    /\ \E f \in ServerFrames :
          /\ frame' = <<f>>
          /\ cpc' = CASE Classify(f) = "empty" -> "pingcheck"
                      [] Classify(f) = "probe" -> "send5"
                      [] Classify(f) = "pong" -> AfterProtocol
                      [] Classify(f) = "ping" -> "pong"
                      [] Classify(f) = "data" -> "parse"
    /\ UNCHANGED <<running, wsOpen, connected, delay, sent, failures, raised, parsedFrames>>

\* '3probe': await send_str("5").
SendUpgrade ==
    /\ cpc = "send5"
    /\ \/ /\ SendOk(ProbeReplies[1])
          /\ cpc' = "send40"
          /\ UNCHANGED <<running, wsOpen, connected, delay, frame, events,
                         failures, raised, parsedFrames>>
       \/ CaughtByRunLoop

\* '3probe': await send_str("40"); then connected = True.
SendNamespace ==
    /\ cpc = "send40"
    /\ \/ /\ SendOk(ProbeReplies[2])
          /\ connected' = TRUE
          /\ cpc' = AfterProtocol
          /\ UNCHANGED <<running, wsOpen, delay, frame, events, failures, raised, parsedFrames>>
       \/ CaughtByRunLoop

\* A ping of the server (leading '2'): await send_str("3").
SendPong ==
    /\ cpc = "pong"
    /\ \/ /\ SendOk(PongReply)
          /\ cpc' = AfterProtocol
          /\ UNCHANGED <<running, wsOpen, connected, delay, frame, events,
                         failures, raised, parsedFrames>>
       \/ CaughtByRunLoop

\* The loop of _handle_message over the parsed positions: is_duplicate and,
\* for a new key, queue.append; st is the state of the filter and the queue.
\* append finds the lock free (no holder keeps it across a suspension), so
\* the loop runs without a suspension.
RECURSIVE HandlePositions(_, _)
HandlePositions(ps, st) ==
    IF ps = <<>> THEN st
    ELSE LET p == Head(ps)
             r == DedupCall(st.seen, st.lastCleanup, clock, p)
         IN  HandlePositions(Tail(ps),
                 [seen |-> r.seen,
                  lastCleanup |-> r.lastCleanup,
                  queue |-> IF r.dup THEN st.queue
                            ELSE DequeAppend(st.queue, p),
                  buf |-> IF r.dup THEN st.buf
                          ELSE AppendLine(st.buf, ToDict(p))])

\* parser.parse(message) for each frame that reaches the parser and each
\* reading of the wall clock.
ParseResults ==
    [f \in {g \in ServerFrames : Classify(g) = "data"} |->
        [now \in WallClock |-> Parse(f, now)]]

\* Any other frame goes to the parser, the filter and the queue; an
\* exception that leaves the parser leaves _handle_message and
\* _receive_loop as well.
ParseFrame ==
    /\ cpc = "parse"
    /\ \E now \in WallClock : \E parsed \in {ParseResults[frame[1]][now]} :
          LET st == HandlePositions(parsed.positions,
                        [seen |-> seen, lastCleanup |-> lastCleanup,
                         queue |-> queue, buf |-> bufFile])
          IN  \/ /\ ~parsed.raised
                 /\ seen' = st.seen
                 /\ lastCleanup' = st.lastCleanup
                 /\ queue' = st.queue
                 /\ bufFile' = st.buf
                 /\ parsedFrames' = parsedFrames \cup {frame[1]}
                 /\ cpc' = "pingcheck"
                 /\ UNCHANGED <<running, wsOpen, connected, delay, frame, sent,
                                events, failures, raised>>
              \/ /\ parsed.raised
                 /\ CaughtByRunLoop
                 /\ UNCHANGED <<seen, lastCleanup, queue, bufFile>>

\* After a frame: `if connected and now - last_ping > ping_interval` a ping
\* is sent (a failed send breaks the loop); then the loop condition.
PingCheck ==
    /\ cpc = "pingcheck"
    /\ frame' = <<>>
    /\ \/ /\ connected
          /\ SendOk(<<"2">>)
          /\ NextIteration
       \/ /\ connected
          /\ LeaveReceiveLoop
          /\ UNCHANGED sent
       \/ /\ NextIteration
          /\ UNCHANGED sent
    /\ UNCHANGED <<running, wsOpen, delay, events, failures, raised, parsedFrames>>

\* The sleep of reconnect_delay after a lost connection ends.
Reconnect ==
    /\ cpc = "lost"
    /\ cpc' = AfterSleep(running)
    /\ UNCHANGED <<running, wsOpen, connected, delay, frame, sent, events,
                   failures, raised, parsedFrames>>

\* stop(), first half: _running = False and `await self._ws.close()`.
StopClose ==
    /\ running
    /\ cpc # "stopped"
    /\ wsOpen
    /\ running' = FALSE
    /\ wsOpen' = FALSE
    /\ UNCHANGED <<cpc, connected, delay, frame, sent, events, failures, raised, parsedFrames>>

\* stop() with no open socket: nothing is awaited between _running = False
\* and task.cancel().
StopIdle ==
    /\ running
    /\ cpc # "stopped"
    /\ ~wsOpen
    /\ running' = FALSE
    /\ cpc' = "stopped"
    /\ frame' = <<>>
    /\ UNCHANGED <<wsOpen, connected, delay, sent, events, failures, raised, parsedFrames>>

\* stop(), second half: the task is cancelled at its suspension point;
\* `except asyncio.CancelledError: break`.
StopCancel ==
    /\ ~running
    /\ cpc # "stopped"
    /\ cpc' = "stopped"
    /\ frame' = <<>>
    /\ UNCHANGED <<running, wsOpen, connected, delay, sent, events, failures,
                   raised, parsedFrames>>

----------------------------------------------------------------------------
(* KPTPoller._poll_routes_loop; session.get_json, session.refresh_session   *)
(* and writer.write_route_record return or raise                            *)

InitPoll ==
    /\ ppc = "top"
    /\ pollerRunning = TRUE
    /\ consecutiveFailures = 0
    /\ pollCount = 0
    /\ statFailures = 0
    /\ routeRecords = <<>>
    /\ polls = 0
    /\ pending403 = FALSE
    /\ refreshLog = <<>>
    /\ inFlight = 0

\* Variant: the threshold is passed only by a counter above it.
ReachedMax_above(cf) == cf > MaxConsecutiveFailures

\* `if consecutive_failures >= max_failures`
ReachedMax(cf) == cf >= MaxConsecutiveFailures

\* The position after the handlers of one poll: the forced refresh when the
\* counter reached the threshold, else the sleep of poll_interval.
AfterHandlers(cf) == IF ReachedMax(cf) THEN "refreshmax" ELSE "sleep"

\* Variant: a 403 is counted like any other failure, without its refresh.
After403_countOnly(cf) == AfterHandlers(cf)

\* `except CookiesExpiredError`: await session.refresh_session().
After403(cf) == "refresh403"

\* The positions at which the loop awaits session.refresh_session().
RefreshPcs == {"refresh403", "refreshmax"}

\* The loop reaches `await session.refresh_session()`: a call begins.
Begun(pc) == IF pc \in RefreshPcs THEN 1 ELSE 0

\* Variant: the loop goes on while the call it made is still running.
RefreshEnded_stillRunning(n) == n

\* The awaited call has returned, raised or was cancelled with the task.
RefreshEnded(n) == n - 1

\* A failure is counted: consecutive_failures += 1, record_poll_failure().
CountFailure ==
    /\ consecutiveFailures' = consecutiveFailures + 1
    /\ statFailures' = statFailures + 1

\* `while self._running`: poll_count += 1 and get_json is awaited, or the
\* loop ends.
PollIssue ==
    /\ ppc = "top"
    /\ \/ /\ pollerRunning
          /\ polls < MaxPolls
          /\ ppc' = "fetch"
          /\ pollCount' = pollCount + 1
          /\ polls' = polls + 1
       \/ /\ ~pollerRunning
          /\ ppc' = "exited"
          /\ UNCHANGED <<pollCount, polls>>
    /\ UNCHANGED <<pollerRunning, consecutiveFailures, statFailures,
                   routeRecords, pending403, refreshLog,
                   inFlight>>

\* get_json returns the routes: the counter is reset, record_poll_success()
\* counts the poll again, and the record is passed to the writer.
FetchOk ==
    /\ ppc = "fetch"
    /\ consecutiveFailures' = 0
    /\ statFailures' = 0
    /\ pollCount' = pollCount + 1
    /\ ppc' = "write"
    /\ UNCHANGED <<pollerRunning, routeRecords, polls, pending403, refreshLog,
                   inFlight>>

\* get_json returns None, or raises an exception other than the 403.
FetchFail ==
    /\ ppc = "fetch"
    /\ CountFailure
    /\ ppc' = AfterHandlers(consecutiveFailures')
    /\ inFlight' = inFlight + Begun(ppc')
    /\ UNCHANGED <<pollerRunning, pollCount, routeRecords, polls, pending403,
                   refreshLog>>

\* get_json raises CookiesExpiredError.
Fetch403 ==
    /\ ppc = "fetch"
    /\ CountFailure
    /\ pending403' = TRUE
    /\ ppc' = After403(consecutiveFailures')
    /\ inFlight' = inFlight + Begun(ppc')
    /\ UNCHANGED <<pollerRunning, pollCount, routeRecords, polls, refreshLog>>

\* write_route_record returns.
WriteRecordOk ==
    /\ ppc = "write"
    /\ routeRecords' = Append(routeRecords, pollCount)
    /\ ppc' = AfterHandlers(consecutiveFailures)
    /\ inFlight' = inFlight + Begun(ppc')
    /\ UNCHANGED <<pollerRunning, consecutiveFailures, pollCount, statFailures,
                   polls, pending403, refreshLog>>

\* write_route_record raises: `except Exception` counts a failure.
WriteRecordFail ==
    /\ ppc = "write"
    /\ CountFailure
    /\ ppc' = AfterHandlers(consecutiveFailures')
    /\ inFlight' = inFlight + Begun(ppc')
    /\ UNCHANGED <<pollerRunning, pollCount, routeRecords, polls, pending403,
                   refreshLog>>

\* The refresh of the 403 handler returns; then the threshold test.
Refresh403Done ==
    /\ ppc = "refresh403"
    /\ pending403' = FALSE
    /\ refreshLog' = Append(refreshLog, "403")
    /\ ppc' = AfterHandlers(consecutiveFailures)
    /\ inFlight' = RefreshEnded(inFlight) + Begun(ppc')
    /\ UNCHANGED <<pollerRunning, consecutiveFailures, pollCount, statFailures,
                   routeRecords, polls>>

\* The forced refresh returns: the counter is reset.
RefreshMaxDone ==
    /\ ppc = "refreshmax"
    /\ pending403' = FALSE
    /\ refreshLog' = Append(refreshLog, "max")
    /\ consecutiveFailures' = 0
    /\ ppc' = "sleep"
    /\ inFlight' = RefreshEnded(inFlight)
    /\ UNCHANGED <<pollerRunning, pollCount, statFailures, routeRecords, polls>>

\* refresh_session raises: the exception ends the task (both calls are
\* outside the try of the loop).
RefreshRaises ==
    /\ ppc \in RefreshPcs
    /\ ppc' = "failed"
    /\ inFlight' = RefreshEnded(inFlight)
    /\ UNCHANGED <<pollerRunning, consecutiveFailures, pollCount, statFailures,
                   routeRecords, polls, pending403, refreshLog>>

\* The sleep of poll_interval ends.
PollSleepDone ==
    /\ ppc = "sleep"
    /\ ppc' = "top"
    /\ UNCHANGED <<pollerRunning, consecutiveFailures, pollCount, statFailures,
                   routeRecords, polls, pending403, refreshLog,
                   inFlight>>

\* KPTPoller.stop(), from the signal handler.
PollerStop ==
    /\ pollerRunning
    /\ pollerRunning' = FALSE
    /\ UNCHANGED <<ppc, consecutiveFailures, pollCount, statFailures,
                   routeRecords, polls, pending403, refreshLog,
                   inFlight>>

\* _shutdown_tasks cancels the task at its suspension point.
PollCancel ==
    /\ ppc \in {"fetch", "write", "refresh403", "refreshmax", "sleep"}
    /\ ppc' = "exited"
    /\ inFlight' = IF ppc \in RefreshPcs THEN RefreshEnded(inFlight)
                   ELSE inFlight
    /\ UNCHANGED <<pollerRunning, consecutiveFailures, pollCount, statFailures,
                   routeRecords, polls, pending403, refreshLog>>

----------------------------------------------------------------------------
(* KPTPoller.run, _run_session and the loop tasks of a session *)

\* The loop tasks of a session beside the polling loop.
OtherLoops == {"flush", "stats"}

\* A task that has returned or raised.
Done == {"exited", "failed"}

\* run() has built the first session and waits in gather(); each task is
\* about to test the flag for the first time.
InitRun ==
    /\ rpc = "gather"
    /\ lpc = [l \in OtherLoops |-> "top"]
    /\ rexc = FALSE
    /\ rlog = <<>>
    /\ rsessions = 1

\* Variant: every session counts its polls from 0.
StatsOfNextSession_fresh(n) == 0

\* self._stats is built in __init__, once: a new session counts on.
StatsOfNextSession(n) == n

\* Variant: run() builds the next session whatever the flag is.
RunAgain_always(run) == TRUE

\* `while self._running` of run()
RunAgain(run) == run

\* `while self._running` of the flush loop and of the stats loop.
LoopTest(l) ==
    /\ lpc[l] = "top"
    /\ lpc' = [lpc EXCEPT ![l] = IF pollerRunning THEN "sleep" ELSE "exited"]
    /\ UNCHANGED <<rpc, rexc, rlog, rsessions, pvars>>

\* The sleep of the flush loop ends and flush() is awaited: an empty result
\* makes the loop `continue`, a batch is passed to the writer.
FlushLoopWake ==
    /\ lpc["flush"] = "sleep"
    /\ \E next \in {"top", "work"} : lpc' = [lpc EXCEPT !["flush"] = next]
    /\ UNCHANGED <<rpc, rexc, rlog, rsessions, pvars>>

\* write_positions returns and the batch is confirmed, or it raises and
\* `except Exception` logs: the iteration is over.
FlushLoopWritten ==
    /\ lpc["flush"] = "work"
    /\ lpc' = [lpc EXCEPT !["flush"] = "top"]
    /\ UNCHANGED <<rpc, rexc, rlog, rsessions, pvars>>

\* The sleep of the stats loop ends and the line is logged, or building the
\* line raises and the exception ends the task.
StatsLoopWake ==
    /\ lpc["stats"] = "sleep"
    /\ \E next \in {"top", "failed"} : lpc' = [lpc EXCEPT !["stats"] = next]
    /\ UNCHANGED <<rpc, rexc, rlog, rsessions, pvars>>

\* A task has raised: gather() raises its exception at once.
SomeFailed == ppc = "failed" \/ \E l \in OtherLoops : lpc[l] = "failed"

\* Every task has ended: gather() returns.
AllDone == ppc \in Done /\ \A l \in OtherLoops : lpc[l] \in Done

\* task.cancel() of the polling task unless it is done, and its await.
CancelPollTask ==
    IF ppc \in Done THEN UNCHANGED pvars
    ELSE IF ppc = "top"
         THEN /\ ppc' = "exited"
              /\ UNCHANGED <<pollerRunning, consecutiveFailures, pollCount,
                             statFailures, routeRecords, polls, pending403,
                             refreshLog, inFlight>>
         ELSE PollCancel

\* gather() is left; `finally` enters _shutdown_tasks, which cancels the
\* tasks that are not done and awaits them all.
LeaveGather ==
    /\ rpc = "gather"
    /\ SomeFailed \/ AllDone
    /\ rexc' = SomeFailed
    /\ CancelPollTask
    /\ lpc' = [l \in OtherLoops |-> IF lpc[l] \in Done THEN lpc[l] ELSE "exited"]
    /\ rlog' = <<"cancel">>
    /\ rpc' = "stopclient"
    /\ UNCHANGED rsessions

\* await ws_client.stop()
StopClient ==
    /\ rpc = "stopclient"
    /\ rlog' = Append(rlog, "stop")
    /\ rpc' = "finalflush"
    /\ UNCHANGED <<lpc, rexc, rsessions, pvars>>

\* The final flush(); a batch is written and confirmed.
FinalFlush ==
    /\ rpc = "finalflush"
    /\ rlog' = Append(rlog, "flush")
    /\ rpc' = "close"
    /\ UNCHANGED <<lpc, rexc, rsessions, pvars>>

\* The write of the final batch raises: the exception leaves
\* _shutdown_tasks and reaches `except Exception` of run().
FinalWriteRaises ==
    /\ rpc = "finalflush"
    /\ rlog' = Append(rlog, "raised")
    /\ rexc' = FALSE
    /\ rpc' = "backoff"
    /\ UNCHANGED <<lpc, rsessions, pvars>>

\* writer.close(); then the exception of the session reaches
\* `except Exception` of run(), which sleeps backoff_delay, or the session
\* has ended without one.
CloseWriter ==
    /\ rpc = "close"
    /\ rlog' = Append(rlog, "close")
    /\ rexc' = FALSE
    /\ rpc' = IF rexc THEN "backoff" ELSE "test"
    /\ UNCHANGED <<lpc, rsessions, pvars>>

\* The sleep of backoff_delay ends.
RunBackoffDone ==
    /\ rpc = "backoff"
    /\ rpc' = "test"
    /\ UNCHANGED <<lpc, rexc, rlog, rsessions, pvars>>

\* `while self._running` of run(): the next session with its new tasks, or
\* run() returns.
RunTest ==
    /\ rpc = "test"
    /\ \/ /\ RunAgain(pollerRunning)
          /\ rsessions < MaxRunSessions
          /\ rpc' = "gather"
          /\ rsessions' = rsessions + 1
          /\ lpc' = [l \in OtherLoops |-> "top"]
          /\ rlog' = <<>>
          /\ ppc' = "top"
          /\ consecutiveFailures' = 0
          /\ pending403' = FALSE
          /\ pollCount' = StatsOfNextSession(pollCount)
          /\ UNCHANGED <<rexc, pollerRunning, statFailures, routeRecords,
                         polls, refreshLog, inFlight>>
       \/ /\ ~RunAgain(pollerRunning)
          /\ rpc' = "returned"
          /\ UNCHANGED <<lpc, rexc, rlog, rsessions, pvars>>

----------------------------------------------------------------------------
(* The codec applied to one input: parse, parse_csv_position, from_dict *)

\* A coordinate as the wire writes it and its value in 1/100 degree.
Coordinate(text, n) == [text |-> text, n |-> n]

\* Latitudes below, on and above the edges of the bounds, and inside.
LatChoices ==
    {Coordinate(<<"5", "0", ".", "1", "0">>, 5010),
     Coordinate(<<"5", "0", ".", "2", "0">>, 5020),
     Coordinate(<<"5", "0", ".", "4", "5">>, 5045),
     Coordinate(<<"5", "0", ".", "7", "0">>, 5070),
     Coordinate(<<"5", "0", ".", "7", "1">>, 5071)}

\* Longitudes below, on and above the edges of the bounds, and inside.
LonChoices ==
    {Coordinate(<<"3", "0", ".", "1", "9">>, 3019),
     Coordinate(<<"3", "0", ".", "2", "0">>, 3020),
     Coordinate(<<"3", "0", ".", "5", "2">>, 3052),
     Coordinate(<<"3", "1", ".", "0", "0">>, 3100),
     Coordinate(<<"3", "1", ".", "0", "1">>, 3101)}

\* The forms of a message: a bare record, and an envelope whose payload is
\* a record string, an array of record strings or an array of objects.
Forms == {"csv", "string", "strings", "objects"}

\* Event names: "v" is allow-listed, "x" is not.
EventNames == {<<"v">>, <<"x">>}

\* What is wrong with the record: nothing; a field too few or too many, or
\* a vehicle id that is no number (record text); a missing lat or lon, a
\* vehicle id that is no number, a null or an infinite direction (object);
\* a payload that is cut off (envelope).
TextDefects == {"short", "long", "word"}
ObjectDefects == {"noLat", "noLon", "word", "null", "infinite"}
Defects == {"none", "cut"} \cup TextDefects \cup ObjectDefects

\* s[1] \o sep \o s[2] \o ... : str.join
RECURSIVE Join(_, _)
Join(s, sep) ==
    IF s = <<>> THEN <<>>
    ELSE IF Len(s) = 1 THEN s[1]
    ELSE s[1] \o sep \o Join(Tail(s), sep)

\* The record text "7,3,<lat>,<lon>,1,2,100" of a message, with its defect.
RecordText(in) ==
    LET vid == IF in.defect = "word" THEN <<"x", "7">> ELSE <<"7">>
        six == <<vid, <<"3">>, in.lat.text, in.lon.text, <<"1">>, <<"2">>>>
    IN  Join(CASE in.defect = "short" -> six
               [] in.defect = "long" -> six \o <<<<"1", "0", "0">>, <<"9">>>>
               [] OTHER -> six \o <<<<"1", "0", "0">>>>,
             <<",">>)

\* The object {"vehicle_id":7,"route_id":3,"lat":..,"lon":..,"direction":1,
\* "flag":2,"timestamp":100} of a message, with its defect.
ObjectText(in) ==
    LET vid == IF in.defect = "word" THEN JsonText(<<"x", "7">>) ELSE <<"7">>
        dir == CASE in.defect = "null" -> <<"n", "u", "l", "l">>
                 [] in.defect = "infinite" ->
                        <<"I", "n", "f", "i", "n", "i", "t", "y">>
                 [] OTHER -> <<"1">>
        lat == IF in.defect = "noLat" THEN <<>>
               ELSE <<MemberText(KeyLat, in.lat.text)>>
        lon == IF in.defect = "noLon" THEN <<>>
               ELSE <<MemberText(KeyLon, in.lon.text)>>
    IN  <<"{">> \o
        Join(<<MemberText(KeyVehicleId, vid), MemberText(KeyRouteId, <<"3">>)>>
                 \o lat \o lon \o
             <<MemberText(KeyDirection, dir), MemberText(KeyFlag, <<"2">>),
               MemberText(KeyTimestamp, <<"1", "0", "0">>)>>,
             <<",">>)
        \o <<"}">>

\* The text of the message.
Render(in) ==
    LET payload == CASE in.form = "string" -> JsonText(RecordText(in))
                     [] in.form = "strings" ->
                            <<"[">> \o JsonText(RecordText(in)) \o <<"]">>
                     [] in.form = "objects" ->
                            <<"[">> \o ObjectText(in) \o <<"]">>
                     [] OTHER -> <<>>
        whole == <<"4", "2", "[">> \o JsonText(in.name) \o <<",">> \o payload
    IN  IF in.form = "csv" THEN RecordText(in)
        ELSE IF in.defect = "cut" THEN whole
        ELSE whole \o <<"]">>

\* The position the record of a message stands for.
Candidate(in) == VehiclePosition(7, 3, in.lat.n, in.lon.n, 1, 2, 100)

\* A position for from_dict(to_dict(.)), of vehicle 0 or 1.
SamplePosition(v, r, d, f, t) == VehiclePosition(v, r, 5045, 3052, d, f, t)

CodecInput(kind, form, name, lat, lon, defect, pos) ==
    [kind |-> kind, form |-> form, name |-> name, lat |-> lat, lon |-> lon,
     defect |-> defect, pos |-> pos]

\* No input: the codec is not exercised.
NoInput ==
    CodecInput("idle", "csv", <<"v">>, Coordinate(<<>>, 0), Coordinate(<<>>, 0),
               "none", SamplePosition(0, 0, 0, 0, 0))

\* The messages: every form with every pair of coordinates, and every
\* defect a form can have at the coordinates (50.45, 30.52).
MessageInputs ==
    {CodecInput("message", form, name, lat, lon, defect, NoInput.pos) :
        form \in Forms, name \in EventNames, lat \in LatChoices,
        lon \in LonChoices, defect \in Defects} \cap
    {in \in [kind : {"message"}, form : Forms, name : EventNames,
             lat : LatChoices, lon : LonChoices, defect : Defects,
             pos : {NoInput.pos}] :
        /\ in.form = "csv" => in.name = <<"v">>
        /\ in.defect \in TextDefects \ ObjectDefects => in.form # "objects"
        /\ in.defect \in ObjectDefects \ TextDefects => in.form = "objects"
        /\ in.defect = "cut" => in.form # "csv"
        /\ in.defect # "none" => in.lat.n = 5045 /\ in.lon.n = 3052}

\* The positions: every combination of zero and non-zero integer fields.
PositionInputs ==
    {CodecInput("position", "csv", <<"v">>, NoInput.lat, NoInput.lon, "none",
                SamplePosition(v, r, d, f, t)) :
        v \in {0, 1}, r \in {0, 1}, d \in {0, 1}, f \in {0, 1},
        t \in Timestamps}

InitCodec ==
    /\ codecIn = NoInput
    /\ parseOut = <<>>
    /\ csvOut = <<>>
    /\ restored = <<>>

InitCodecInput ==
    /\ codecIn \in MessageInputs \cup PositionInputs
    /\ parseOut = <<>>
    /\ csvOut = <<>>
    /\ restored = <<>>

\* MessageParser(bounds).parse(message)
ParseMessage ==
    /\ codecIn.kind = "message"
    /\ parseOut = <<>>
    /\ \E now \in WallClock : parseOut' = <<Parse(Render(codecIn), now)>>
    /\ UNCHANGED <<codecIn, csvOut, restored>>

\* parse_csv_position(message, bounds)
ParseCsv ==
    /\ codecIn.kind = "message"
    /\ csvOut = <<>>
    /\ csvOut' = <<ParseCsvPosition(Render(codecIn))>>
    /\ UNCHANGED <<codecIn, parseOut, restored>>

\* VehiclePosition.from_dict(position.to_dict())
RoundTrip ==
    /\ codecIn.kind = "position"
    /\ restored = <<>>
    /\ \E now \in WallClock : restored' = <<FromDict(ToDict(codecIn.pos), now)>>
    /\ UNCHANGED <<codecIn, parseOut, csvOut>>

----------------------------------------------------------------------------
(* The specifications *)

Init ==
    InitQueue /\ InitDedup /\ InitClient /\ InitPoll /\ InitCodec /\ InitRun

QueueStep(A) == A /\ UNCHANGED <<dvars, cvars, pvars, wvars, rvars>>

Next ==
    \/ QueueStep(Recover)
    \/ QueueStep(RecoverForward)
    \/ QueueStep(RecoverForwardFail)
    \/ QueueStep(CreateTasks)
    \/ QueueStep(AppendPush)
    \/ QueueStep(AppendWrite)
    \/ QueueStep(FlushLoopFlush)
    \/ QueueStep(FlushWriteOk)
    \/ QueueStep(FlushWriteFail)
    \/ QueueStep(FlushConfirm)
    \/ QueueStep(ShutdownCancel)
    \/ QueueStep(ShutdownStopClient)
    \/ QueueStep(ShutdownFlush)
    \/ QueueStep(ShutdownWriteOk)
    \/ QueueStep(ShutdownWriteFail)
    \/ QueueStep(ShutdownConfirm)
    \/ QueueStep(ShutdownClose)
    \/ QueueStep(Crash)

Spec == Init /\ [][Next]_vars

DedupStep(A) == A /\ UNCHANGED <<qvars, cvars, pvars, wvars, rvars>>

NextDedup ==
    \/ DedupStep(IsDuplicate)
    \/ DedupStep(ClockAdvance)

SpecDedup == Init /\ [][NextDedup]_vars

ClientStep(A) ==
    A /\ UNCHANGED <<qvars, dvars, pvars, hsReply, wsUrl, wvars, rvars>>

\* A step of the client that obtains or drops the handshake reply or the
\* socket URL.
HandshakeStep(A) == A /\ UNCHANGED <<qvars, dvars, pvars, wvars, rvars>>

\* A step of the client that reaches the filter and the queue.
ClientDataStep(A) ==
    A /\ UNCHANGED <<procFile, lock, apos, opc, fpc, positions, remaining,
                     recovered, written, epoch, nextId, tasks, appended,
                     overflowed, failedBatch, sinceFlush, scen, sinceEmpty,
                     shutLog, clock, inserted, dlast, pvars, hsReply, wsUrl,
                     wvars, rvars>>

NextClient ==
    \/ HandshakeStep(HandshakeFail)
    \/ HandshakeStep(HandshakeOk)
    \/ HandshakeStep(ConnectFail)
    \/ HandshakeStep(ConnectOk)
    \/ HandshakeStep(BackoffDone)
    \/ HandshakeStep(SendProbe)
    \/ ClientStep(ReceiveTimeout)
    \/ ClientStep(ReceiveClosed)
    \/ ClientStep(ReceiveText)
    \/ ClientStep(SendUpgrade)
    \/ ClientStep(SendNamespace)
    \/ ClientStep(SendPong)
    \/ ClientDataStep(ParseFrame)
    \/ ClientStep(PingCheck)
    \/ ClientStep(Reconnect)
    \/ ClientStep(StopClose)
    \/ ClientStep(StopIdle)
    \/ ClientStep(StopCancel)

SpecClient == Init /\ [][NextClient]_vars

\* asyncio.sleep returns: the sleep after a failure and the sleep after a
\* lost connection end.
SleepsReturn ==
    /\ WF_vars(HandshakeStep(BackoffDone))
    /\ WF_vars(ClientStep(Reconnect))

SpecClientLive == Init /\ [][NextClient]_vars /\ SleepsReturn

PollStep(A) == A /\ UNCHANGED <<qvars, dvars, cvars, wvars, rvars>>

NextPoll ==
    \/ PollStep(PollIssue)
    \/ PollStep(FetchOk)
    \/ PollStep(FetchFail)
    \/ PollStep(Fetch403)
    \/ PollStep(WriteRecordOk)
    \/ PollStep(WriteRecordFail)
    \/ PollStep(Refresh403Done)
    \/ PollStep(RefreshMaxDone)
    \/ PollStep(RefreshRaises)
    \/ PollStep(PollSleepDone)
    \/ PollStep(PollerStop)
    \/ PollStep(PollCancel)

SpecPoll == Init /\ [][NextPoll]_vars

\* A step of run(), of _run_session or of a loop task beside the polling.
RunStep(A) == A /\ UNCHANGED <<qvars, dvars, cvars, wvars>>

NextRun ==
    \/ PollStep(PollIssue)
    \/ PollStep(FetchOk)
    \/ PollStep(FetchFail)
    \/ PollStep(Fetch403)
    \/ PollStep(WriteRecordOk)
    \/ PollStep(WriteRecordFail)
    \/ PollStep(Refresh403Done)
    \/ PollStep(RefreshMaxDone)
    \/ PollStep(RefreshRaises)
    \/ PollStep(PollSleepDone)
    \/ PollStep(PollerStop)
    \/ RunStep(\E l \in OtherLoops : LoopTest(l))
    \/ RunStep(FlushLoopWake)
    \/ RunStep(FlushLoopWritten)
    \/ RunStep(StatsLoopWake)
    \/ RunStep(LeaveGather)
    \/ RunStep(StopClient)
    \/ RunStep(FinalFlush)
    \/ RunStep(FinalWriteRaises)
    \/ RunStep(CloseWriter)
    \/ RunStep(RunBackoffDone)
    \/ RunStep(RunTest)

SpecRun == Init /\ [][NextRun]_vars

\* A step of a task of the session or of run(): every step but stop().
TaskStep ==
    \/ PollStep(PollIssue \/ FetchOk \/ FetchFail \/ Fetch403 \/ WriteRecordOk
                    \/ WriteRecordFail \/ Refresh403Done \/ RefreshMaxDone
                    \/ RefreshRaises \/ PollSleepDone)
    \/ RunStep((\E l \in OtherLoops : LoopTest(l)) \/ FlushLoopWake
                   \/ FlushLoopWritten \/ StatsLoopWake \/ LeaveGather
                   \/ StopClient \/ FinalFlush \/ FinalWriteRaises
                   \/ CloseWriter \/ RunBackoffDone \/ RunTest)

\* Every sleep, fetch, write and refresh that is awaited returns or raises,
\* and the event loop resumes a task that can go on.
AwaitsReturn == WF_vars(TaskStep)

SpecRunLive == Init /\ [][NextRun]_vars /\ AwaitsReturn

\* The lines a queue file may hold when a process starts: the records of
\* the vehicles 1 and 2, empty lines and lines that are no JSON.
FileLines ==
    {ToDict(InboundPosition(1, 100)), ToDict(InboundPosition(2, 100)),
     Blank, Garbage}

\* The queue files a process may find.
QueueFiles ==
    {Absent} \cup
    UNION {{[exists |-> TRUE, lines |-> l] : l \in [1..n -> FileLines]} :
               n \in 0..MaxLines}

\* A process started on a directory that holds queue files of an earlier
\* process.
InitRecover ==
    /\ InitMemory
    /\ procFile \in QueueFiles
    /\ bufFile \in QueueFiles
    /\ InitDedup
    /\ InitClient
    /\ InitPoll
    /\ InitCodec
    /\ InitRun

NextRecover ==
    \/ QueueStep(Recover)
    \/ QueueStep(RecoverForward)
    \/ QueueStep(RecoverForwardFail)
    \/ QueueStep(Crash)

SpecRecover == InitRecover /\ [][NextRecover]_vars

CodecStep(A) == A /\ UNCHANGED <<qvars, dvars, cvars, pvars, rvars>>

NextCodec ==
    \/ CodecStep(ParseMessage)
    \/ CodecStep(ParseCsv)
    \/ CodecStep(RoundTrip)

\* The rest of the program idle, one input chosen for the codec.
InitCodecRun ==
    InitQueue /\ InitDedup /\ InitClient /\ InitPoll /\ InitCodecInput
        /\ InitRun

SpecCodec == InitCodecRun /\ [][NextCodec]_vars

----------------------------------------------------------------------------
(* Helpers of the properties *)

Range(s) == {s[i] : i \in DOMAIN s}

Min(a, b) == IF a <= b THEN a ELSE b

\* The vehicle ids of a sequence of positions or of dictionary lines; every
\* append of the model carries its own id, so an id names one append.
Ids(s) == {s[i].vehicle_id : i \in DOMAIN s}

\* The last n entries of s.
LastN(s, n) == SubSeq(s, Len(s) - n + 1, Len(s))

\* The dictionary lines of a sequence of positions.
Lines(s) == [i \in DOMAIN s |-> ToDict(s[i])]

\* The tail of the writer's record is exactly batch b, handed over by `via`
\* in the current session.
JustWritten(b, via) ==
    /\ b # <<>>
    /\ Len(written) >= Len(b)
    /\ LastN(written, Len(b)) = Handed(b, via)

----------------------------------------------------------------------------
(* C1 - C4, C6 - C8: the queue and the flush paths, under Spec *)

\* C1: without in-memory overflow, every position whose append returned has
\* been handed to the writer in a successful write or is still held in the
\* in-memory buffer, the buffer file or the processing file (a list that
\* recover() has just returned and that is about to be forwarded counts as
\* held).  Positions are identified by their vehicle id.
C1_NoAppendedPositionLost ==
    ~overflowed =>
        \A p \in appended :
            \/ p.vehicle_id \in {written[i].pos.vehicle_id : i \in DOMAIN written}
            \/ p.vehicle_id \in Ids(queue)
            \/ p.vehicle_id \in Ids(bufFile.lines)
            \/ p.vehicle_id \in Ids(procFile.lines)
            \/ p.vehicle_id \in Ids(recovered)

\* C2: when the write of a flushed batch raised, the batch the next flush
\* cycle hands to the writer contains that batch again.
C2_FailedBatchHandedAgain ==
    (opc = "running" /\ fpc = "write" /\ failedBatch # <<>>) =>
        Ids(failedBatch) \subseteq Ids(positions)

\* C3: n positions (1 <= n <= max_size) appended to an empty queue and
\* flushed without confirm_flush are returned by recover() of a fresh
\* instance exactly and in append order, and no queue file is left.
C3_RecoverReturnsFlushedBatch ==
    (opc = "recovered" /\ scen = "recovered" /\ Len(sinceEmpty) <= MaxSize) =>
        /\ recovered = sinceEmpty
        /\ ~procFile.exists
        /\ ~bufFile.exists

\* C4 as stated: no position is handed to the writer a second time.
C4_NeverHandedTwice ==
    \A i, j \in DOMAIN written :
        i # j => written[i].pos.vehicle_id # written[j].pos.vehicle_id

\* C4 as amended: a position is handed to the writer a second time only by
\* the recovery of a later session (at-least-once delivery); within one
\* session no position is handed over twice.
C4_HandedAgainOnlyByRecovery ==
    \A i, j \in DOMAIN written :
        (i < j /\ written[i].pos.vehicle_id = written[j].pos.vehicle_id) =>
            /\ written[j].via = "recover"
            /\ written[j].epoch > written[i].epoch

\* C4 witness: a batch written by the flush loop and, its confirm_flush cut
\* off by the end of the process, written again after recovery.
C4_WitnessRecoveredDuplicate ==
    \E i, j \in DOMAIN written :
        /\ i < j
        /\ written[i].pos.vehicle_id = written[j].pos.vehicle_id
        /\ written[i].via = "flush"
        /\ written[j].via = "recover"

C7_ConfirmOnlyAfterWrite ==
    [][ /\ (procFile.exists /\ ~procFile'.exists /\ opc' # "recovered") =>
              \/ fpc = "written" /\ JustWritten(positions, "flush")
              \/ opc = "shutwritten" /\ JustWritten(remaining, "shutdown")
        /\ ((fpc = "write" \/ opc = "shutwrite") /\ written' = written) =>
              /\ procFile' = procFile
              /\ fpc' # "written"
              /\ opc' # "shutwritten"
      ]_vars

\* C7 witness: the flush loop is back in its sleep after a cycle whose
\* batch was written and confirmed.
C7_WitnessConfirmed ==
    /\ opc = "running"
    /\ fpc = "sleep"
    /\ written # <<>>
    /\ written[Len(written)].via = "flush"
    /\ written[Len(written)].epoch = epoch
    /\ failedBatch = <<>>
    /\ ~procFile.exists
    /\ sinceFlush = <<>>

\* The deque and the buffer file agree: the deque is the last
\* min(#lines, max_size) lines of the file.
QueueMatchesBuffer ==
    LET n == Len(bufFile.lines) IN
        /\ Len(queue) = Min(n, MaxSize)
        /\ Lines(queue) = LastN(bufFile.lines, Min(n, MaxSize))

----------------------------------------------------------------------------
(* C5: the deduplication filter, under SpecDedup *)

\* C5: a call for a key returns true when the key was inserted before and
\* the call comes before its expiry (insert time + ttl); a call after the
\* expiry, or for a key never inserted, returns false and inserts the key
\* with expiry now + ttl.  A call exactly at the expiry is left open.
C5_DuplicateIffUnexpired ==
    dlast # <<>> =>
        LET c == dlast[1] IN
            /\ (c.known /\ c.at < c.expiry) => c.result
            /\ c.result => c.known
            /\ (~c.known \/ c.at > c.expiry) =>
                  /\ ~c.result
                  /\ c.key \in DOMAIN seen
                  /\ seen[c.key] = c.at + Ttl

----------------------------------------------------------------------------
(* C9, C10: the streaming client, under SpecClient *)

RECURSIVE Pow2(_)
Pow2(n) == IF n = 0 THEN 1 ELSE 2 * Pow2(n - 1)

Last(s) == s[Len(s)]

\* Positions of _run_loop inside an open connection.
InConnection ==
    cpc \in {"probe", "receive", "send5", "send40", "pong", "parse",
             "pingcheck", "lost"}

\* C9 as stated: at the next attempt after N consecutive handshake or
\* socket-open failures the delay is min(reconnect_delay * 2^N, 300).
C9_DelayCountsFailedAttempts ==
    cpc = "handshake" =>
        delay = Min(ReconnectDelay * Pow2(failures), MaxDelay)

\* C9 as amended: the N of min(reconnect_delay * 2^N, 300) counts the
\* handshake failures, the socket-open failures and the exceptions caught by
\* the run loop since the last successful connection; the sleep in progress
\* uses the delay of N - 1; a successful connection resets the delay.
C9_DelayCountsFailuresAndExceptions ==
    /\ cpc = "handshake" =>
          delay = Min(ReconnectDelay * Pow2(failures + raised), MaxDelay)
    /\ cpc = "backoff" =>
          /\ failures + raised >= 1
          /\ delay = Min(ReconnectDelay * Pow2(failures + raised - 1), MaxDelay)
    /\ InConnection =>
          (delay = ReconnectDelay /\ failures = 0 /\ raised = 0)

\* C9 witness: the cap is reached after failed attempts and an exception.
C9_WitnessCapped ==
    /\ cpc = "handshake"
    /\ failures >= 2
    /\ raised >= 1
    /\ ReconnectDelay * Pow2(failures + raised) > MaxDelay
    /\ delay = MaxDelay

\* C10: '5' and '40' are sent only while '3probe' is being handled, '40'
\* directly after '5' and nothing else after a '5'; connected turns true
\* only in the step that completes the send of '40'.
C10_UpgradeRepliesInOrder ==
    [][ LET grew == Len(sent') = Len(sent) + 1 IN
        /\ (grew /\ Last(sent') = <<"5">>) => frame = <<ProbeResponse>>
        /\ (grew /\ Last(sent') = <<"4", "0">>) =>
              /\ frame = <<ProbeResponse>>
              /\ sent # <<>>
              /\ Last(sent) = <<"5">>
        /\ (grew /\ sent # <<>> /\ Last(sent) = <<"5">>) =>
              Last(sent') = <<"4", "0">>
        /\ (~connected /\ connected') =>
              /\ frame = <<ProbeResponse>>
              /\ Len(sent') >= 2
              /\ LastN(sent', 2) = << <<"5">>, <<"4", "0">> >>
      ]_vars

\* C10 witness: the upgrade is complete, both replies are on the wire.
C10_WitnessUpgraded ==
    /\ cpc = "pingcheck"
    /\ frame = <<ProbeResponse>>
    /\ connected
    /\ Len(sent) >= 3
    /\ LastN(sent, 2) = << <<"5">>, <<"4", "0">> >>

----------------------------------------------------------------------------
(* C11 - C15: connection state, heartbeat, stop and the data path of the    *)
(* streaming client, under SpecClient                                       *)

\* C11: when a connection has ended, by whatever cause, is_connected is
\* false before the next handshake is attempted.
C11_DisconnectedBeforeHandshake ==
    cpc = "handshake" => ~connected

\* A receive timeout: the wait ended with no frame.
TimeoutStep == cpc = "receive" /\ events' = events + 1 /\ frame' = <<>>

\* The frame in hand is of class c.
Handling(c) == frame # <<>> /\ Classify(frame[1]) = c

\* The step sends exactly the frame f.
Sends(f) == sent' = Append(sent, f)

\* The '3probe' upgrade was completed on the current connection.
Upgraded == \E i \in DOMAIN sent : sent[i] = <<"4", "0">>

\* C12: a receive timeout on a connection whose upgrade completed sends
\* exactly one ping '2' and the loop keeps waiting (a ping that cannot be
\* sent ends the loop); a timeout before the upgrade completed sends
\* nothing; a ping frame of the server is answered with exactly one pong
\* '3', which is sent for nothing else; a pong frame is handled without a
\* send.
C12_Heartbeat ==
    [][ /\ (TimeoutStep /\ Upgraded) =>
              \/ Sends(<<"2">>) /\ ((running /\ wsOpen) => cpc' = "receive")
              \/ sent' = sent /\ cpc' \in {"lost", "stopped"}
        /\ (TimeoutStep /\ ~Upgraded) =>
              /\ sent' = sent
              /\ (running /\ wsOpen) => cpc' = "receive"
        /\ (cpc = "receive" /\ frame' # <<>> /\ Classify(frame'[1]) = "ping") =>
              /\ cpc' = "pong"
              /\ sent' = sent
        /\ (cpc = "pong" /\ cpc' \notin {"pong", "backoff", "stopped"}) =>
              /\ Handling("ping")
              /\ Sends(<<"3">>)
              /\ cpc' = "pingcheck"
        /\ (cpc = "pong" /\ cpc' \in {"pong", "backoff", "stopped"}) =>
              sent' = sent
        /\ (sent' # sent /\ sent' # <<>> /\ Last(sent') = <<"3">>) =>
              cpc = "pong"
        /\ (cpc = "receive" /\ frame' # <<>> /\ Classify(frame'[1]) = "pong") =>
              /\ cpc' = "pingcheck"
              /\ sent' = sent
      ]_vars

\* C13: once stop() has cleared the running flag no streaming connection is
\* started (a handshake that completes is not followed by a socket open),
\* and when the run loop has ended the socket is closed.
C13_StopClosesAndStartsNothing ==
    [][ /\ ~running => ~(cpc = "handshake" /\ cpc' = "connect")
        /\ cpc' = "stopped" => ~wsOpen'
      ]_vars

\* C14: when a frame has been handled, every position the parser finds in
\* it is known to the filter and has its line in the buffer file (the
\* client's queue is not flushed here): a valid position record is either
\* appended or the duplicate of an appended one.
C14_ValidRecordAppended ==
    (cpc = "pingcheck" /\ frame # <<>>) =>
        \A now \in WallClock :
            \A p \in Range(Parse(frame[1], now).positions) :
                /\ DedupKey(p) \in DOMAIN seen
                /\ ToDict(p) \in Range(bufFile.lines)

\* C15: a frame classified as probe response, ping or pong is not passed to
\* the parser and, while it is in hand, the filter and the queue stay as
\* they are; only data frames are ever parsed.
C15_ProtocolFramesBypassParser ==
    [][ /\ (frame' # <<>> /\ Classify(frame'[1]) \in {"probe", "ping", "pong"}) =>
              cpc' # "parse"
        /\ (frame # <<>> /\ Classify(frame[1]) \in {"probe", "ping", "pong"}) =>
              /\ parsedFrames' = parsedFrames
              /\ seen' = seen
              /\ queue' = queue
              /\ bufFile' = bufFile
        /\ \A f \in parsedFrames' : Classify(f) = "data"
      ]_vars

\* C15 witness: a pong frame handled on a client that has parsed a data
\* frame and appended its position.
C15_WitnessPongAfterData ==
    /\ cpc = "pingcheck"
    /\ Handling("pong")
    /\ parsedFrames # {}
    /\ bufFile.exists

----------------------------------------------------------------------------
(* C16, C17: the route polling loop, under SpecPoll *)

\* C16: a poll answered with the 403 goes to a credential refresh whatever
\* the counter is, and while the refresh for a 403 has not completed no
\* poll is issued and the sleep before the next poll has not begun.
C16_RefreshAfter403 ==
    [][ /\ (ppc = "fetch" /\ pending403') => ppc' = "refresh403"
        /\ ppc' \in {"sleep", "top", "fetch", "write"} => ~pending403'
      ]_vars

\* C16 witness: the next poll is in flight after a 403 that came with the
\* counter at 0 and whose refresh completed.
C16_WitnessRefreshedBelowThreshold ==
    /\ ppc = "fetch"
    /\ consecutiveFailures = 1
    /\ refreshLog # <<>>
    /\ refreshLog[Len(refreshLog)] = "403"

\* C17: a poll whose fetch returns routes resets the counter to 0; a fetch
\* without result, a raising fetch and a raising write increment it by one;
\* a counter at max_consecutive_failures leads to the forced refresh, whose
\* completion resets it to 0; whenever a poll starts (and during the sleep
\* before it) the counter is below max_consecutive_failures.
C17_CounterBelowThreshold ==
    [][ /\ (ppc = "fetch" /\ ppc' = "write") => consecutiveFailures' = 0
        /\ (ppc \in {"fetch", "write"}
              /\ ppc' \in {"sleep", "refreshmax", "refresh403"}
              /\ routeRecords' = routeRecords) =>
              consecutiveFailures' = consecutiveFailures + 1
        /\ (ppc' \notin {"exited", "failed"}
              /\ consecutiveFailures' >= MaxConsecutiveFailures) =>
              ppc' \in {"refresh403", "refreshmax"}
        /\ (ppc = "refreshmax" /\ ppc' = "sleep") => consecutiveFailures' = 0
        /\ ppc' \in {"sleep", "top", "fetch"} =>
              consecutiveFailures' < MaxConsecutiveFailures
      ]_vars

\* C17 witness: the loop sleeps after max_consecutive_failures failures in
\* a row and the forced refresh, with the counter back at 0.
C17_WitnessForcedRefresh ==
    /\ ppc = "sleep"
    /\ consecutiveFailures = 0
    /\ polls = MaxConsecutiveFailures
    /\ routeRecords = <<>>
    /\ refreshLog = <<"max">>

----------------------------------------------------------------------------
(* C18, C19: the order of session shutdown and of session start, under Spec *)

\* s is an initial part of t.
IsPrefix(s, t) == Len(s) <= Len(t) /\ s = SubSeq(t, 1, Len(s))

\* The shutdown steps in their order, with a final batch and without one.
ShutdownOrder ==
    {<<"cancel", "stop", "flush", "write", "confirm", "close">>,
     <<"cancel", "stop", "flush", "close">>}

\* C18: the steps of a session shutdown are taken in the order cancel and
\* await the loop tasks, stop the streaming client, final flush, write of
\* its batch, confirm_flush, writer.close() (write and confirm left out for
\* an empty flush); the final flush finds no task and no client running, its
\* batch is the one written, and after it no position is appended.
C18_ShutdownOrder ==
    [][ /\ \E o \in ShutdownOrder : IsPrefix(shutLog', o)
        /\ (shutLog' # shutLog /\ shutLog' # <<>>
              /\ Last(shutLog') = "flush") => tasks = {}
        /\ (shutLog' # shutLog /\ shutLog' # <<>>
              /\ Last(shutLog') = "write") => JustWritten(remaining, "shutdown")'
        /\ (shutLog' # shutLog /\ shutLog' # <<>>
              /\ Last(shutLog') = "confirm") => ~procFile'.exists
        /\ (shutLog # <<>> /\ "flush" \in Range(shutLog)) =>
              /\ appended' = appended
              /\ nextId' = nextId
              /\ queue' = <<>>
      ]_vars

\* C18 witness: a shutdown with a final batch has run to its end.
C18_WitnessShutdownComplete ==
    /\ shutLog = <<"cancel", "stop", "flush", "write", "confirm", "close">>
    /\ written # <<>>
    /\ written[Len(written)].via = "shutdown"
    /\ ~procFile.exists

\* C19: no task and no streaming client runs before recover() has returned
\* and the recovered positions were handed to the writer: the forwarding
\* step writes exactly the recovered list, and the tasks are started only
\* after it, with nothing recovered left to forward.
C19_RecoverBeforeTasks ==
    [][ /\ opc' \in {"start", "recovered", "forwarded"} =>
              (tasks' = {} /\ fpc' = "none")
        /\ (opc = "recovered" /\ opc' = "forwarded" /\ recovered # <<>>) =>
              written' = written \o Handed(recovered, "recover")
        /\ (tasks = {} /\ tasks' # {}) =>
              /\ opc = "forwarded"
              /\ recovered = <<>>
              /\ tasks' = SessionTasks
      ]_vars

\* C19 witness: the tasks of a session run after recovered positions were
\* written in that session.
C19_WitnessForwardedThenStarted ==
    /\ opc = "running"
    /\ tasks = SessionTasks
    /\ written # <<>>
    /\ written[Len(written)].via = "recover"
    /\ written[Len(written)].epoch = epoch

----------------------------------------------------------------------------
(* C20: recover() on files with malformed lines, under SpecRecover *)

\* The positions of all records of a file, in line order.
RECURSIVE RecordsOf(_, _)
RecordsOf(lines, now) ==
    IF lines = <<>> THEN <<>>
    ELSE IF IsRecord(Head(lines))
         THEN <<FromDict(Head(lines), now)>> \o RecordsOf(Tail(lines), now)
    ELSE RecordsOf(Tail(lines), now)

\* C20: recover() returns the position of every well-formed line of the
\* processing file and of the buffer file, those before and those after a
\* malformed line alike.
C20_MalformedLineSkipped ==
    [][ (opc = "start" /\ opc' = "recovered") =>
            \E now \in WallClock :
                recovered' = RecordsOf(procFile.lines, now)
                                 \o RecordsOf(bufFile.lines, now)
      ]_vars

----------------------------------------------------------------------------
(* C21: the handshake of the streaming client, under SpecClient *)

\* The reply is one of those the claim lists: an exception, no response, a
\* body without the marker, a body whose object is no valid JSON, or an
\* object without sid.
YieldsNoContext(reply) ==
    \/ reply.kind \in {"raise", "none"}
    \/ MarkerIndex(reply.text) = 0
    \/ ~HandshakeObject(reply.text).ok
    \/ ~HasKey(HandshakeObject(reply.text).v, KeySid)

NoContextReplies == {reply \in HandshakeReplies : YieldsNoContext(reply)}

\* The replies whose object is valid JSON and has no sid.
MissingSidReplies ==
    {reply \in HandshakeReplies :
        /\ reply.kind = "text"
        /\ MarkerIndex(reply.text) # 0
        /\ HandshakeObject(reply.text).ok
        /\ ~HasKey(HandshakeObject(reply.text).v, KeySid)}

\* C21: a handshake whose request raises or returns nothing, or whose body
\* has no ':0{' marker, no valid JSON object or no sid, sends the run loop
\* to the backoff sleep with no socket opened and nothing sent; a socket is
\* only opened after a handshake that was none of these; the backoff sleep
\* ends in the next handshake unless the client was stopped.
C21_FailedHandshakeRetries ==
    [][ /\ (cpc = "handshake" /\ cpc' \notin {"handshake", "stopped"}
               /\ hsReply' \in NoContextReplies) =>
              /\ cpc' = "backoff"
              /\ wsOpen' = wsOpen
              /\ sent' = sent
        /\ (cpc # "connect" /\ cpc' = "connect") =>
              /\ cpc = "handshake"
              /\ hsReply' \in HandshakeReplies \ NoContextReplies
        /\ (cpc = "backoff" /\ cpc' # "backoff") =>
              \/ cpc' = "handshake" /\ running
              \/ cpc' = "stopped" /\ ~running'
      ]_vars

\* A handshake that came back with an object without sid was followed by
\* the backoff sleep and by a second failed attempt.
C21_WitnessRetryAfterMissingSid ==
    /\ cpc = "backoff"
    /\ failures >= 2
    /\ hsReply \in MissingSidReplies

----------------------------------------------------------------------------
(* C22 - C25: from_dict and the message parser, under SpecCodec *)

\* C22: from_dict(to_dict(p)) equals p field for field, for every position
\* p, those with integer fields equal to 0 included.
C22_RoundTrip == restored # <<>> => restored[1] = codecIn.pos

\* The coordinates of the message are inside the bounds, edges included.
InBounds(in) ==
    /\ LatMin <= in.lat.n /\ in.lat.n <= LatMax
    /\ LonMin <= in.lon.n /\ in.lon.n <= LonMax

\* C23: every position parse() returns lies inside the bounds, and of an
\* intact record under an allow-listed name, in any of the four forms,
\* parse() returns the position exactly when its coordinates are inside
\* the bounds or on their edges.
C23_ParsedWithinBounds ==
    parseOut # <<>> =>
        /\ \A p \in Range(parseOut[1].positions) :
              /\ LatMin <= p.lat /\ p.lat <= LatMax
              /\ LonMin <= p.lon /\ p.lon <= LonMax
        /\ (codecIn.defect = "none" /\ codecIn.name = <<"v">>) =>
              parseOut[1].positions =
                  IF InBounds(codecIn) THEN <<Candidate(codecIn)>> ELSE <<>>

\* parse() was given an array of objects whose only object lies north of
\* the bounds, and returned nothing.
C23_WitnessObjectOutsideRejected ==
    /\ parseOut # <<>>
    /\ codecIn.form = "objects"
    /\ codecIn.defect = "none"
    /\ codecIn.name = <<"v">>
    /\ codecIn.lat.n > LatMax
    /\ parseOut[1].positions = <<>>

\* C24: parse_csv_position returns a position only for a text of exactly
\* 7 numeric fields, whose values it reads in the order vehicle_id,
\* route_id, lat, lon, direction, flag, timestamp; a text of 6 or of 8
\* fields gives no position.
C24_CsvSevenFields ==
    csvOut # <<>> =>
        /\ csvOut[1] # <<>> =>
              /\ codecIn.form = "csv"
              /\ codecIn.defect = "none"
              /\ csvOut[1] = <<Candidate(codecIn)>>
        /\ (codecIn.form = "csv" /\ codecIn.defect \in {"short", "long"}) =>
              csvOut[1] = <<>>
        /\ (codecIn.form = "csv" /\ codecIn.defect = "none"
               /\ InBounds(codecIn)) =>
              csvOut[1] = <<Candidate(codecIn)>>

\* parse_csv_position was given a record of 8 fields and returned None.
C24_WitnessEightFieldsRejected ==
    /\ csvOut = <<<<>>>>
    /\ codecIn.form = "csv"
    /\ codecIn.defect = "long"

\* C25: parse() raises no error, and returns the empty list for a message
\* whose record has a defect or whose event name is not allow-listed.
C25_ParseNeverRaises ==
    parseOut # <<>> =>
        /\ ~parseOut[1].raised
        /\ (codecIn.defect # "none" \/ codecIn.name # <<"v">>) =>
              parseOut[1].positions = <<>>

----------------------------------------------------------------------------
(* C26: the running flag and the polling loop, under SpecPoll *)

\* C26: once stop() has cleared the running flag, the polling loop starts
\* no fetch, no write of a route record and no credential refresh: the
\* suspension point it is at is its last one.
C26_NoWorkAfterStop ==
    [][ (~pollerRunning /\ ppc' # ppc) =>
            ppc' \notin {"fetch", "write", "refresh403", "refreshmax"}
      ]_vars

----------------------------------------------------------------------------
(* C27, C28: the queue and its two files, under Spec *)

\* flush() returns a batch: in the flush loop or in _shutdown_tasks.
FlushReturnsBatch ==
    \/ fpc = "sleep" /\ fpc' = "write"
    \/ opc = "flushing" /\ opc' = "shutwrite"

\* The batch that flush() returned in this step.
ReturnedBatch == IF fpc' = "write" /\ fpc = "sleep" THEN positions' ELSE remaining'

\* confirm_flush() runs in this step.
ConfirmStep ==
    \/ fpc = "written" /\ fpc' = "sleep"
    \/ opc = "shutwritten" /\ opc' = "closing"

\* recover() runs in this step.
RecoverStep == opc = "start" /\ opc' # "start"

\* C27: a flush() of a non-empty deque returns the deque's content in
\* order, empties the deque, leaves no buffer file and leaves a processing
\* file that holds the line of every position of the batch; a processing
\* file is removed or replaced by confirm_flush only (or read and removed by
\* recover() at the next start), so it is there to recover after a crash.
C27_FlushLeavesRecoverableBatch ==
    [][ /\ FlushReturnsBatch =>
              /\ ReturnedBatch = queue
              /\ queue' = <<>>
              /\ ~bufFile'.exists
              /\ procFile'.exists
              /\ Range(Lines(queue)) \subseteq Range(procFile'.lines)
        /\ (procFile.exists /\ procFile' # procFile) =>
              ConfirmStep \/ RecoverStep
      ]_vars

----------------------------------------------------------------------------
(* C29, C30: recover() and the files it reads, under SpecRecover *)

\* The index of the first line of a file that json.loads rejects, or one
\* more than the number of lines when there is none.
FirstBad(f) ==
    LET bad == {i \in DOMAIN f.lines :
                   ~IsBlank(f.lines[i]) /\ ~IsRecord(f.lines[i])}
                   \cup {Len(f.lines) + 1}
    IN  CHOOSE i \in bad : \A j \in bad : i <= j

\* Every line of the file can be read.
ReadsWhole(f) == FirstBad(f) = Len(f.lines) + 1

\* The positions of the lines before the first line that cannot be read.
ReadBeforeBad(f, now) == RecordsOf(SubSeq(f.lines, 1, FirstBad(f) - 1), now)

\* recover() removed the file if and only if it read all of its lines.
RemovedIfReadWhole(before, after) ==
    after = IF before.exists /\ ReadsWhole(before) THEN Absent ELSE before

\* C29: recover() returns the positions it read from the processing file
\* ahead of those it read from the buffer file, each in line order; it
\* removes a file whose lines it read to the end and leaves every other
\* file as it was.
C29_RecoverOrderAndRemoval ==
    [][ RecoverStep =>
            /\ \E now \in WallClock :
                  recovered' = ReadBeforeBad(procFile, now)
                                   \o ReadBeforeBad(bufFile, now)
            /\ RemovedIfReadWhole(procFile, procFile')
            /\ RemovedIfReadWhole(bufFile, bufFile')
      ]_vars

\* The processing file held the record of vehicle 2 and was removed; the
\* buffer file holds the record of vehicle 1 and then a malformed line, and
\* was left in place: vehicle 2 is returned ahead of vehicle 1.
C29_WitnessProcessingFirstFailedFileKept ==
    /\ opc = "recovered"
    /\ epoch = 1
    /\ ~procFile.exists
    /\ bufFile.exists
    /\ bufFile.lines = <<ToDict(InboundPosition(1, 100)), Garbage>>
    /\ recovered = <<InboundPosition(2, 100), InboundPosition(1, 100)>>

\* The positions of the record lines of a file.
HeldBy(f) == {FromDict(l, 0) : l \in {x \in Range(f.lines) : IsRecord(x)}}

\* The file was there before the step and is gone after it.
RemovedInStep(before, after) == before.exists /\ ~after.exists

\* C30: every position recover() returns was read from a file that this
\* recover() removed; a recover() of a later start, with nothing appended
\* since, returns no position; and no position that an earlier start has
\* forwarded from the files is forwarded from them again.
C30_RecoverIdempotent ==
    [][ /\ RecoverStep =>
              /\ \A p \in Range(recovered') :
                    \/ RemovedInStep(procFile, procFile') /\ p \in HeldBy(procFile)
                    \/ RemovedInStep(bufFile, bufFile') /\ p \in HeldBy(bufFile)
              /\ epoch > 1 => recovered' = <<>>
        /\ \A i \in DOMAIN written' \ DOMAIN written :
              \A j \in DOMAIN written :
                  written[j].epoch # written'[i].epoch =>
                      written[j].pos # written'[i].pos
      ]_vars

----------------------------------------------------------------------------
(* C31, C32: the calls of is_duplicate and the sweep, under SpecDedup *)

\* is_duplicate is called in this step (the clock stands still).
DedupCallStep == clock' = clock /\ dlast' # <<>>

\* C31: a call of is_duplicate that returns true leaves the table of keys
\* as it was: no key is added, none is removed and no expiry changes.
C31_DuplicateLeavesStateUnchanged ==
    [][ (DedupCallStep /\ dlast'[1].result) => seen' = seen ]_vars

\* C32: a key is removed or the time of the last sweep changes only in a
\* call of is_duplicate made more than the cleanup interval after the last
\* sweep; that call drops exactly the keys whose expiry is not after the
\* clock (the key of the call is inserted again); every tracked key expires
\* after the last sweep, and after a call at time t every tracked key
\* expires after t minus the cleanup interval.
C32_LazySweep ==
    [][ /\ (lastCleanup' # lastCleanup \/ DOMAIN seen \ DOMAIN seen' # {}) =>
              /\ DedupCallStep
              /\ clock - lastCleanup > CleanupInterval
              /\ lastCleanup' = clock
              /\ \A k \in DOMAIN seen :
                    IF seen[k] <= clock
                    THEN k \in DOMAIN seen' => (k = dlast'[1].key /\ ~dlast'[1].result)
                    ELSE k \in DOMAIN seen' /\ seen'[k] = seen[k]
        /\ \A k \in DOMAIN seen' : seen'[k] > lastCleanup'
        /\ DedupCallStep =>
              \A k \in DOMAIN seen' : seen'[k] > clock - CleanupInterval
      ]_vars

\* A sweep at 70 has dropped the key inserted at 0 and kept the key
\* inserted at 35.
C32_WitnessSweepDroppedExpiredKey ==
    /\ lastCleanup = 70
    /\ clock = 70
    /\ DOMAIN inserted = {<<7, 100>>, <<8, 100>>}
    /\ DOMAIN seen = {<<8, 100>>}
    /\ seen[<<8, 100>>] = 95

----------------------------------------------------------------------------
(* C33: the order of a connection cycle, under SpecClient *)

ProbeRequest == <<"2", "p", "r", "o", "b", "e">>

\* ws_connect is called in this step (it returns or raises).
ConnectAttempt == cpc = "connect" /\ cpc' \in {"probe", "backoff"}

\* The value of the last parameter of a URL.
LastParameter(url) ==
    LET eq == {i \in DOMAIN url : url[i] = "="}
        from == CHOOSE i \in eq : \A j \in eq : j <= i
    IN  SubSeq(url, from + 1, Len(url))

\* The receive loop of a connection is running.
InReceiveLoop ==
    cpc \in {"receive", "send5", "send40", "pong", "parse", "pingcheck"}

\* C33: the socket is opened only right after a handshake of the same
\* cycle that gave a context, to the URL whose sid is the sid of that
\* handshake's reply, and each handshake serves one attempt; the first
\* frame sent on a connection is '2probe', which is sent once; '5' and '40'
\* are sent only while a '3probe' is handled.
C33_CycleOrder ==
    [][ /\ (cpc' = "connect" /\ cpc # "connect") => cpc = "handshake"
        /\ ConnectAttempt =>
              /\ hsReply \in HandshakeReplies
              /\ hsReply.kind = "text"
              /\ LastParameter(wsUrl') = ParseHandshakeResponse(hsReply.text).sid.s
              /\ LastParameter(wsUrl') # <<>>
        /\ (cpc' = "probe" /\ cpc # "probe") => (ConnectAttempt /\ sent' = <<>>)
        /\ sent' # <<>> => sent'[1] = ProbeRequest
        /\ \A i \in DOMAIN sent' : i > 1 => sent'[i] # ProbeRequest
        /\ InReceiveLoop' => sent' # <<>>
        /\ (sent' # sent /\ sent' # <<>> /\ Last(sent') \in {<<"5">>, <<"4", "0">>}) =>
              Handling("probe")
      ]_vars

\* The handshake was answered with the sid "cd" and the socket was opened
\* to the URL that carries it; '2probe' is due.
C33_WitnessOpenedWithSidOfHandshake ==
    /\ cpc = "probe"
    /\ failures = 0
    /\ delay = ReconnectDelay
    /\ wsOpen
    /\ sent = <<>>
    /\ wsUrl = SidParameter \o <<"c", "d">>

----------------------------------------------------------------------------
(* C34: the run loop goes on after every failure, under SpecClientLive *)

\* _run_loop sleeps after a failure or after a lost connection.
Sleeping == cpc \in {"backoff", "lost"}

\* C34: the run loop ends only after stop() cleared the running flag; a
\* failed handshake, a failed socket open and an exception caught by the
\* loop lead to the backoff sleep, a connection lost while running leads to
\* the reconnect sleep; a sleep is left for the next handshake unless the
\* client was stopped, and every sleep is left.
C34_LoopRetriesUntilStopped ==
    /\ [][ /\ (cpc' = "stopped" /\ cpc # "stopped") => ~running'
           /\ (failures' = failures + 1 \/ raised' = raised + 1) =>
                 cpc' = "backoff"
           /\ (cpc \notin {"backoff", "lost", "stopped"} /\ connected
                  /\ ~connected' /\ running') => cpc' \in {"lost", "backoff"}
           /\ (Sleeping /\ cpc' # cpc) =>
                 (cpc' = IF running' THEN "handshake" ELSE "stopped")
         ]_vars
    /\ Sleeping ~> (cpc \in {"handshake", "stopped"})

\* The loop sleeps after an exception it caught on a connection that had
\* sent frames, and the client was not stopped.
C34_WitnessSleepAfterException ==
    /\ cpc = "backoff"
    /\ running
    /\ raised = 1
    /\ failures = 0
    /\ sent # <<>>

----------------------------------------------------------------------------
(* C35, C36: the credential refreshes of the polling loop, under SpecPoll *)

C36_OneRefreshPerIteration ==
    [][ ppc = "refresh403" => ppc' # "refreshmax" ]_vars

----------------------------------------------------------------------------
(* C37: the poll numbers of the route records, under SpecRun *)

\* C37: the poll_number of every route record handed to the writer is
\* greater than that of the record before it, with failed polls in between
\* and across the sessions of the process.
C37_PollNumbersIncrease ==
    \A i \in 1..Len(routeRecords) - 1 : routeRecords[i] < routeRecords[i + 1]

\* A record of the first session, a failed poll, and a record of the
\* second session.
C37_WitnessRecordsOfTwoSessions ==
    /\ rsessions = 2
    /\ polls = 3
    /\ routeRecords = <<2, 5>>

----------------------------------------------------------------------------
(* C38: the end of run() after stop(), under SpecRunLive *)

\* _shutdown_tasks of the last session has stopped the streaming client,
\* taken the final flush and closed the writer, or the write of its final
\* batch raised.
ShutdownPerformed ==
    \/ rlog = <<"cancel", "stop", "flush", "close">>
    \/ rlog = <<"cancel", "stop", "raised">>

====
